---- MODULE Spec2Model ----
(***************************************************************************)
(* GlassCart2 backend (src/backend/index.js, src/backend/models.js) over   *)
(* the PostgreSQL schema and demo data that src/backend/seed.js creates.   *)
(*                                                                         *)
(* models.js names the columns campaigns.retailer_id and                   *)
(* scans.converted_order_id, which only the first schema of seed.js        *)
(* (lines 11-464) has, so that schema and its seed rows are the database   *)
(* the handlers run against.  The handlers of campaigns, orders, payouts,  *)
(* scans and links are modelled from their first statement;                *)
(* requireRetailerAuth and the order of the Express stack are modelled for *)
(* the /retailers routes and the per-campaign scan summary.                *)
(*                                                                         *)
(* Conventions.  Row ids are integers (uuidv4 gives a fresh id on every    *)
(* insert); 0 is the absent id.  Money is an integer number of cents.      *)
(* JavaScript text values are strings, with "undefined" for a key that     *)
(* the JSON body does not carry and "null" for JS null / SQL NULL.         *)
(* An optional number or object is a sequence: <<>> absent, <<v>> present. *)
(***************************************************************************)
EXTENDS Integers, FiniteSets, Sequences, TLC

VARIABLES
    campaigns,  \* rows of table campaigns
    orders,     \* rows of table orders
    payouts,    \* rows of table payouts
    scans,      \* rows of table scans
    creq,       \* POST /campaigns: one request per client, with its position
    lreq,       \* POST /orders, POST /payouts: the last request and its response
    sreq,       \* POST /analytics/scan: the request being served
    rreq,       \* the GET and asset routes: the last request and its response
    ireq,       \* POST /analytics/scan: one request per client, in flight together
    users,      \* rows of table users
    areq        \* the routes behind requireRetailerAuth: the last request, the
                \* functions of the Express stack that ran for it, its response

vars == <<campaigns, orders, payouts, scans, creq, lreq, sreq, rreq, ireq, users, areq>>

----------------------------------------------------------------------------
(* Bounds of the model *)

NumClients == 2      \* clients that each send one request at the same time
MaxNewOrders == 1    \* orders created on top of the seeded ones
MaxNewPayouts == 2   \* payouts created on top of the seeded ones
MaxScanRequests == 1 \* POST /analytics/scan requests served, one after the other

----------------------------------------------------------------------------
(* JavaScript and SQL values *)

UNDEFINED == "undefined"
NULLV == "null"
NullId == 0
UnknownIds == {99}   \* a well-formed UUID that no row carries
NoResponse == 0      \* the handler's promise rejected: Express sends nothing

\* JS truthiness of a text value (undefined, null and '' are falsy)
Truthy(v) == v \notin {UNDEFINED, NULLV, ""}

Or_LookupWins(a, b) == IF Truthy(b) THEN b ELSE a

\* JS a || b
Or(a, b) == IF Truthy(a) THEN a ELSE b

\* node-postgres sends undefined and null parameters as SQL NULL
ToDb(v) == IF v = UNDEFINED THEN NULLV ELSE v

NextId(rows) == Cardinality(rows) + 1

----------------------------------------------------------------------------
(* Seeded database: seed.js, first schema *)

SeedUsers ==
    { [id |-> 1, role |-> "retailer", email |-> "retailer@kathmandu.co.nz"],
      [id |-> 2, role |-> "distributor", email |-> "dist@sample.com"],
      [id |-> 3, role |-> "advertiser", email |-> "ads@outdoorads.co.nz"],
      [id |-> 4, role |-> "advertiser", email |-> "ads@urbanmedia.nz"],
      [id |-> 5, role |-> "customer", email |-> "jane@customer.com"],
      [id |-> 6, role |-> "customer", email |-> "john@shopper.net"],
      [id |-> 7, role |-> "admin", email |-> "admin@mall.com"] }

UserIds == { u.id : u \in SeedUsers }

\* every seeded product belongs to users[0]
SeedProducts == { [id |-> i, distributor_id |-> 1] : i \in 1..11 }

ProductIds == { p.id : p \in SeedProducts }

ProductOwner(pid) == (CHOOSE p \in SeedProducts : p.id = pid).distributor_id

SeedCampaigns ==
    { [id |-> 1, retailer_id |-> 1, product_id |-> 1,
       campaign_name |-> "Hybrid Trolley v5 - Black Stingray QR",
       qr_code_identifier |-> "kathmandu_black_stingray", commission_percent |-> 10],
      [id |-> 2, retailer_id |-> 1, product_id |-> 2,
       campaign_name |-> "Hybrid Trolley v5 - Pure Navy QR",
       qr_code_identifier |-> "kathmandu_pure_navy", commission_percent |-> 10],
      [id |-> 3, retailer_id |-> 1, product_id |-> 3,
       campaign_name |-> "Women's Andulo Rain Jacket QR",
       qr_code_identifier |-> "kathmandu_andulo_jacket", commission_percent |-> 10],
      [id |-> 4, retailer_id |-> 1, product_id |-> 4,
       campaign_name |-> "Cap Off Season Sale",
       qr_code_identifier |-> "cap_sale", commission_percent |-> 8] }

----------------------------------------------------------------------------
(* POST /campaigns *)

Clients == 1..NumClients

\* Request bodies: ids (0 when the key is absent), texts ('' when absent),
\* commission_percent as an optional JSON number: <<>> absent, <<n>> the
\* integer n, <<n, d>> the number n.d (12.5 is <<12, 5>>).
CampaignBodies ==
    LET all == [ retailer_id : {NullId, 1} \cup UnknownIds,
                 product_id : {NullId, 5},
                 campaign_name : {"", "Summer Promo"},
                 qr_code_identifier : {"", "summer2025", "kathmandu_black_stingray",
                                       "cap_sale?src=poster", "id-of-3000-chars"},
                 commission_percent : {<<>>, <<10>>, <<-5>>, <<150>>, <<12, 5>>} ]
        defects(b) ==
            (IF b.retailer_id # 1 THEN 1 ELSE 0) + (IF b.product_id = NullId THEN 1 ELSE 0)
          + (IF b.campaign_name = "" THEN 1 ELSE 0) + (IF b.qr_code_identifier = "" THEN 1 ELSE 0)
          + (IF b.commission_percent = <<>> THEN 1 ELSE 0)
          + (IF b.commission_percent \notin {<<>>, <<10>>} /\ b.qr_code_identifier # "summer2025"
             THEN 2 ELSE 0)
    IN  { b \in all : defects(b) <= 1 }

NoCampaignBody ==
    [ retailer_id |-> NullId, product_id |-> NullId, campaign_name |-> "",
      qr_code_identifier |-> "", commission_percent |-> <<>> ]

\* Mutant of FirstMissing: a `required` list without qr_code_identifier
FirstMissing_ShortList(f) ==
    IF f.retailer_id = NullId THEN "retailer_id"
    ELSE IF f.product_id = NullId THEN "product_id"
    ELSE IF f.campaign_name = "" THEN "campaign_name"
    ELSE ""

\* createCampaign's loop over `required`: the first key whose value is falsy
FirstMissing(f) ==
    IF f.retailer_id = NullId THEN "retailer_id"
    ELSE IF f.product_id = NullId THEN "product_id"
    ELSE IF f.campaign_name = "" THEN "campaign_name"
    ELSE IF f.qr_code_identifier = "" THEN "qr_code_identifier"
    ELSE ""

\* Mutants of UniqueViolation: the column without its UNIQUE constraint, and
\* a uniqueness test against the rows as they were when the server started.
UniqueViolation_NoConstraint(rows, ident) == FALSE

UniqueViolation_StaleRead(rows, ident) ==
    \E c \in SeedCampaigns : c.qr_code_identifier = ident

\* qr_code_identifier TEXT NOT NULL UNIQUE

UniqueViolation(rows, ident) == \E c \in rows : c.qr_code_identifier = ident

QrConstraint == "campaigns_qr_code_identifier_key"

NoDbError == [code |-> "", constraint |-> "", message |-> ""]

\* commission_percent INTEGER: the parameter is NULL or the text of an
\* integer (a number with a fractional part is not)
IntegerInput(v) == Len(v) <= 1

\* The error PostgreSQL raises for INSERT INTO campaigns, NoDbError when the
\* row is accepted: the parameters are read as their columns' types, NOT
\* NULL when the row is formed, the unique index when it is inserted, the
\* foreign keys when the statement ends.
CampaignInsertError(rows, f) ==
    IF ~IntegerInput(f.commission_percent)
    THEN [code |-> "22P02", constraint |-> "",
          message |-> "invalid input syntax for type integer"]
    ELSE IF f.commission_percent = <<>>
    THEN [code |-> "23502", constraint |-> "",
          message |-> "null value in column commission_percent violates not-null constraint"]
    ELSE IF UniqueViolation(rows, f.qr_code_identifier)
    THEN [code |-> "23505", constraint |-> QrConstraint,
          message |-> "duplicate key value violates unique constraint"]
    ELSE IF f.retailer_id \notin UserIds
    THEN [code |-> "23503", constraint |-> "campaigns_retailer_id_fkey",
          message |-> "insert or update on table campaigns violates foreign key constraint"]
    ELSE IF f.product_id \notin ProductIds
    THEN [code |-> "23503", constraint |-> "campaigns_product_id_fkey",
          message |-> "insert or update on table campaigns violates foreign key constraint"]
    ELSE NoDbError

\* err.constraint.includes('qr_code_identifier')
IncludesQrCodeIdentifier(constraint) == constraint = QrConstraint

UniqueMessage == "QR code identifier must be unique."

\* createCampaign's catch block: the message of the Error it throws
CreateCampaignError(err) ==
    IF err.code = "23505" /\ err.constraint # "" /\ IncludesQrCodeIdentifier(err.constraint)
    THEN <<UniqueMessage>>
    ELSE <<"Failed to create campaign: ", err.message>>

CampaignRow(id, f) ==
    [ id |-> id, retailer_id |-> f.retailer_id, product_id |-> f.product_id,
      campaign_name |-> f.campaign_name, qr_code_identifier |-> f.qr_code_identifier,
      commission_percent |-> f.commission_percent[1] ]

\* racing is history, not program state: the request was awaiting its INSERT
\* while another request with the same identifier was awaiting its own.
IdleCreq ==
    [ pc |-> "idle", body |-> NoCampaignBody, status |-> NoResponse, error |-> <<>>,
      created |-> NullId, racing |-> FALSE ]

Rivals(c, f) ==
    { d \in Clients \ {c} :
        creq[d].pc = "inserting" /\ creq[d].body.qr_code_identifier = f.qr_code_identifier }

\* The handler up to its await: createCampaign validates the required
\* fields and either throws (400) or sends the INSERT.
CreateCampaignBegin(c, f) ==
    /\ creq[c].pc = "idle"
    /\ creq' =
         IF FirstMissing(f) # ""
         THEN [creq EXCEPT ![c] =
                 [IdleCreq EXCEPT !.pc = "done", !.body = f, !.status = 400,
                                  !.error = <<"Missing required field: ", FirstMissing(f)>>]]
         ELSE [d \in Clients |->
                 IF d = c
                 THEN [IdleCreq EXCEPT !.pc = "inserting", !.body = f,
                                       !.racing = (Rivals(c, f) # {})]
                 ELSE IF d \in Rivals(c, f) THEN [creq[d] EXCEPT !.racing = TRUE]
                 ELSE creq[d]]
    /\ UNCHANGED <<campaigns, orders, payouts, scans, lreq, sreq, rreq, ireq, users, areq>>

\* The INSERT runs in the database as one statement, and the handler
\* answers 201 with the row, or 400 with the message createCampaign threw.
CreateCampaignInsert(c) ==
    /\ creq[c].pc = "inserting"
    /\ LET f == creq[c].body
           err == CampaignInsertError(campaigns, f)
           id == NextId(campaigns)
       IN  IF err = NoDbError
           THEN /\ campaigns' = campaigns \cup {CampaignRow(id, f)}
                /\ creq' = [creq EXCEPT ![c].pc = "done", ![c].status = 201, ![c].created = id]
           ELSE /\ campaigns' = campaigns
                /\ creq' = [creq EXCEPT ![c].pc = "done", ![c].status = 400,
                                        ![c].error = CreateCampaignError(err)]
    /\ UNCHANGED <<orders, payouts, scans, lreq, sreq, rreq, ireq, users, areq>>

----------------------------------------------------------------------------
(* POST /orders and POST /payouts *)

SeedOrders ==
    { [id |-> 1, customer_id |-> 4, product_id |-> 1, campaign_id |-> 1, quantity |-> 2,
       total_amount |-> 7998, commission_amount |-> 799,
       shipping_address |-> "123 Queen St, Wellington"],
      [id |-> 2, customer_id |-> 5, product_id |-> 2, campaign_id |-> 2, quantity |-> 1,
       total_amount |-> 2499, commission_amount |-> 300,
       shipping_address |-> "456 K Road, Auckland"],
      [id |-> 3, customer_id |-> 4, product_id |-> 3, campaign_id |-> NullId, quantity |-> 3,
       total_amount |-> 4497, commission_amount |-> 0,
       shipping_address |-> "123 Queen St, Wellington"] }

PayoutTypes == {"advertiser_commission", "distributor_revenue"}

SeedPayouts ==
    { [id |-> 1, recipient_id |-> 2, order_id |-> 1, amount |-> 799,
       type |-> "advertiser_commission"],
      [id |-> 2, recipient_id |-> 1, order_id |-> 1, amount |-> 7199,
       type |-> "distributor_revenue"],
      [id |-> 3, recipient_id |-> 2, order_id |-> 2, amount |-> 300,
       type |-> "advertiser_commission"],
      [id |-> 4, recipient_id |-> 1, order_id |-> 2, amount |-> 2199,
       type |-> "distributor_revenue"],
      [id |-> 5, recipient_id |-> 1, order_id |-> 3, amount |-> 4497,
       type |-> "distributor_revenue"] }

\* Request bodies of POST /orders.  scan_id stands for the scan identifier a
\* client may send along with the order; createOrder reads eight named
\* fields of the body and nothing else.
OrderBodies ==
    LET all == [ customer_id : {5},
                 product_id : {1} \cup UnknownIds,
                 campaign_id : {NullId, 1} \cup UnknownIds,
                 quantity : {<<>>, <<1>>},
                 total_amount : {<<>>, <<10000>>},
                 commission_amount : {<<>>, <<1000>>, <<700>>},
                 shipping_address : {UNDEFINED, "1 Lambton Quay"},
                 scan_id : {NullId, 1, 3} ]
        defects(b) ==
            (IF b.product_id \in UnknownIds THEN 1 ELSE 0)
          + (IF b.campaign_id \in UnknownIds THEN 1 ELSE 0)
          + (IF b.quantity = <<>> THEN 1 ELSE 0) + (IF b.total_amount = <<>> THEN 1 ELSE 0)
          + (IF b.commission_amount = <<>> THEN 1 ELSE 0)
          + (IF b.shipping_address = UNDEFINED THEN 1 ELSE 0)
    IN  { b \in all : defects(b) <= 1 }

\* INSERT INTO orders is accepted: the NOT NULL columns and the foreign keys
OrderAccepted(cs, f) ==
    /\ f.quantity # <<>> /\ f.total_amount # <<>> /\ f.commission_amount # <<>>
    /\ f.shipping_address # UNDEFINED
    /\ f.customer_id \in UserIds \cup {NullId}
    /\ f.product_id \in ProductIds \cup {NullId}
    /\ f.campaign_id \in { c.id : c \in cs } \cup {NullId}

\* createOrder stores the body's fields as they are
OrderRow(id, f) ==
    [ id |-> id, customer_id |-> f.customer_id, product_id |-> f.product_id,
      campaign_id |-> f.campaign_id, quantity |-> f.quantity[1],
      total_amount |-> f.total_amount[1], commission_amount |-> f.commission_amount[1],
      shipping_address |-> f.shipping_address ]

IdleLreq == [op |-> "", status |-> NoResponse, order_id |-> NullId, scan_id |-> NullId,
             payout_id |-> NullId, type |-> UNDEFINED]

\* An order route that also writes the order into the scan its body names,
\* whatever that scan's conversion pointer holds
PostOrders_Reattributes(f) ==
    /\ Cardinality(orders) < Cardinality(SeedOrders) + MaxNewOrders
    /\ OrderAccepted(campaigns, f)
    /\ LET id == NextId(orders)
       IN  /\ orders' = orders \cup {OrderRow(id, f)}
           /\ scans' = { IF s.id = f.scan_id THEN [s EXCEPT !.converted_order_id = id] ELSE s :
                           s \in scans }
           /\ lreq' = [op |-> "POST /orders", status |-> 201, order_id |-> id,
                       scan_id |-> f.scan_id, payout_id |-> NullId, type |-> UNDEFINED]
    /\ UNCHANGED <<campaigns, payouts, creq, sreq, rreq, ireq, users, areq>>

\* app.post('/orders'): createOrder(req.body), then 201 with the row; a
\* rejected INSERT is not caught and no response is sent.
PostOrders(f) ==
    /\ Cardinality(orders) < Cardinality(SeedOrders) + MaxNewOrders
    /\ LET id == NextId(orders)
       IN  IF OrderAccepted(campaigns, f)
           THEN /\ orders' = orders \cup {OrderRow(id, f)}
                /\ lreq' = [op |-> "POST /orders", status |-> 201, order_id |-> id,
                            scan_id |-> f.scan_id, payout_id |-> NullId, type |-> UNDEFINED]
           ELSE /\ orders' = orders
                /\ lreq' = [op |-> "POST /orders", status |-> NoResponse, order_id |-> NullId,
                            scan_id |-> f.scan_id, payout_id |-> NullId, type |-> UNDEFINED]
    /\ UNCHANGED <<campaigns, payouts, scans, creq, sreq, rreq, ireq, users, areq>>

\* Request bodies of POST /payouts; order 4 is the first order created on top
\* of the seeded ones.
PayoutBodies ==
    LET all == [ recipient_id : {1, 2} \cup UnknownIds,
                 order_id : {4} \cup UnknownIds,
                 amount : {<<>>, <<1000>>, <<9000>>},
                 type : PayoutTypes \cup {"bonus"} ]
        defects(b) ==
            (IF b.recipient_id \in UnknownIds THEN 1 ELSE 0)
          + (IF b.order_id \in UnknownIds THEN 1 ELSE 0)
          + (IF b.amount = <<>> THEN 1 ELSE 0) + (IF b.type \notin PayoutTypes THEN 1 ELSE 0)
    IN  { b \in all : defects(b) <= 1 }

\* The column without its CHECK, as the later CREATE TABLE payouts has it
TypeCheck_NoConstraint(t) == TRUE

\* type TEXT NOT NULL CHECK(type IN (...))
TypeCheck(t) == t \in PayoutTypes

\* INSERT INTO payouts is accepted: NOT NULL, the CHECK and the foreign keys
PayoutAccepted(os, f) ==
    /\ f.amount # <<>>
    /\ TypeCheck(f.type)
    /\ f.recipient_id \in UserIds \cup {NullId}
    /\ f.order_id \in { o.id : o \in os } \cup {NullId}

PayoutRow(id, f) ==
    [ id |-> id, recipient_id |-> f.recipient_id, order_id |-> f.order_id,
      amount |-> f.amount[1], type |-> f.type ]

\* app.post('/payouts'): createPayout(req.body), then 201 with the row
PostPayouts(f) ==
    /\ Cardinality(payouts) < Cardinality(SeedPayouts) + MaxNewPayouts
    /\ LET id == NextId(payouts)
       IN  IF PayoutAccepted(orders, f)
           THEN /\ payouts' = payouts \cup {PayoutRow(id, f)}
                /\ lreq' = [op |-> "POST /payouts", status |-> 201, order_id |-> f.order_id,
                            scan_id |-> NullId, payout_id |-> id, type |-> f.type]
           ELSE /\ payouts' = payouts
                /\ lreq' = [op |-> "POST /payouts", status |-> NoResponse,
                            order_id |-> f.order_id, scan_id |-> NullId, payout_id |-> NullId,
                            type |-> f.type]
    /\ UNCHANGED <<campaigns, orders, scans, creq, sreq, rreq, ireq, users, areq>>

----------------------------------------------------------------------------
(* POST /analytics/scan *)

\* A JS object is a function from its keys; a key holding undefined is a
\* key JSON.stringify leaves out.
JsonStringify(o) == [json |-> [k \in {k \in DOMAIN o : o[k] # UNDEFINED} |-> o[k]]]

\* The JSONB column read back by node-postgres
JsonParse(text) == text.json

SeedScans ==
    { [id |-> 1, campaign_id |-> 1, scanned_at |-> "2025-05-10T18:30:00Z",
       lat |-> "-41.2865", lon |-> "174.7762",
       city |-> "Wellington", suburb |-> "Te Aro", region |-> "Wellington",
       weather |-> <<[temp |-> "12", condition |-> "Cloudy"]>>,
       converted_order_id |-> 1, device_type |-> "mobile", referrer |-> "fb_campaign",
       scan_source |-> "QR", user_agent |-> "Mozilla/5.0 (iPhone)"],
      [id |-> 2, campaign_id |-> 2, scanned_at |-> "2025-11-05T14:00:00Z",
       lat |-> "-36.8485", lon |-> "174.7633",
       city |-> "Auckland", suburb |-> "CBD", region |-> "Auckland",
       weather |-> <<[temp |-> "25", condition |-> "Sunny"]>>,
       converted_order_id |-> 2, device_type |-> "mobile", referrer |-> "ig_ad",
       scan_source |-> "QR", user_agent |-> "Mozilla/5.0 (Android)"],
      [id |-> 3, campaign_id |-> 3, scanned_at |-> "2025-07-20T11:00:00Z",
       lat |-> "-43.5321", lon |-> "172.6362",
       city |-> "Christchurch", suburb |-> "Riccarton", region |-> "Canterbury",
       weather |-> <<[temp |-> "10", condition |-> "Rain"]>>,
       converted_order_id |-> NullId, device_type |-> "desktop", referrer |-> "twitter",
       scan_source |-> "QR", user_agent |-> "Mozilla/5.0 (Windows NT)"],
      [id |-> 4, campaign_id |-> 4, scanned_at |-> "2025-08-15T21:30:00Z",
       lat |-> "-45.8742", lon |-> "170.5036",
       city |-> "Dunedin", suburb |-> "City Centre", region |-> "Otago",
       weather |-> <<[temp |-> "8", condition |-> "Clear"]>>,
       converted_order_id |-> NullId, device_type |-> "tablet", referrer |-> "direct",
       scan_source |-> "QR", user_agent |-> "Mozilla/5.0 (iPad)"] }

\* JSON numbers, as written
NumberLiterals == {"0", "-41.28", "174.78"}

\* typeof v === 'number'
TypeofNumber(v) == v \in NumberLiterals

\* truthiness of a JS number
NumTruthy(v) == TypeofNumber(v) /\ v # "0"

ValidTimestamps == {"2025-06-10T09:00:00Z"}

ClientWeather == [temp |-> "15", condition |-> "Windy"]

\* coords of the request bodies: absent, one coordinate alone, a coordinate
\* that is a string, and number pairs with and without a zero
CoordsCases ==
    { <<>>,
      <<[lat |-> "-41.28", lon |-> UNDEFINED]>>, <<[lat |-> UNDEFINED, lon |-> "174.78"]>>,
      <<[lat |-> "'-41.28'", lon |-> "174.78"]>>, <<[lat |-> "-41.28", lon |-> "'174.78'"]>>,
      <<[lat |-> "-41.28", lon |-> "174.78"]>>,
      <<[lat |-> "0", lon |-> "174.78"]>>, <<[lat |-> "-41.28", lon |-> "0"]>> }

\* The user agent and the device metadata of a request: what most requests
\* carry (a browser's User-Agent header and nothing else), a request that
\* names all four in its body, and one with device_type alone and no header
PlainMeta ==
    [ user_agent |-> UNDEFINED, header_user_agent |-> "Mozilla/5.0 (Linux)",
      device_type |-> UNDEFINED, referrer |-> UNDEFINED, scan_source |-> UNDEFINED ]

MetaCases ==
    { PlainMeta,
      [ user_agent |-> "KioskApp/2.1", header_user_agent |-> "Mozilla/5.0 (Linux)",
        device_type |-> "mobile", referrer |-> "fb_campaign", scan_source |-> "QR" ],
      [ user_agent |-> UNDEFINED, header_user_agent |-> UNDEFINED,
        device_type |-> "tablet", referrer |-> UNDEFINED, scan_source |-> UNDEFINED ] }

ScanBodies ==
    LET all == [ campaign_id : {NullId, 1} \cup UnknownIds,
                 scanned_at : {UNDEFINED} \cup ValidTimestamps,
                 coords : CoordsCases,
                 city : {UNDEFINED, "", "Petone", "Wellington"},
                 suburb : {UNDEFINED, "Korokoro"},
                 region : {UNDEFINED, "Hutt Valley"},
                 weather : {<<>>, <<ClientWeather>>},
                 meta : MetaCases ]
        coordsOk(b) == /\ b.coords # <<>>
                       /\ TypeofNumber(b.coords[1].lat) /\ TypeofNumber(b.coords[1].lon)
        defects(b) ==
            (IF b.campaign_id # 1 THEN 1 ELSE 0)
          + (IF b.scanned_at \notin ValidTimestamps THEN 1 ELSE 0)
          + (IF coordsOk(b) THEN 0 ELSE 1)
        bare(b) == /\ b.city = UNDEFINED /\ b.suburb = UNDEFINED /\ b.region = UNDEFINED
                   /\ b.weather = <<>>
        full(b) == /\ b.city = "Petone" /\ b.suburb # UNDEFINED /\ b.region # UNDEFINED
                   /\ b.weather # <<>> /\ b.coords[1].lat # "0" /\ b.coords[1].lon # "0"
    IN  { b \in all :
            /\ defects(b) = 0 \/ (defects(b) = 1 /\ (bare(b) \/ ~coordsOk(b)))
            /\ b.meta = PlainMeta \/ (defects(b) = 0 /\ full(b))
            /\ b.city = "Wellington"
                  => /\ defects(b) = 0 /\ b.suburb # UNDEFINED /\ b.region # UNDEFINED
                     /\ b.weather # <<>> /\ b.meta = PlainMeta
                     /\ b.coords[1].lat # "0" /\ b.coords[1].lon # "0" }

NoScanBody ==
    [ campaign_id |-> NullId, scanned_at |-> UNDEFINED, coords |-> <<>>, city |-> UNDEFINED,
      suburb |-> UNDEFINED, region |-> UNDEFINED, weather |-> <<>>, meta |-> PlainMeta ]

\* The `if` that answers 400 'Missing required scan data'
MissingRequiredScanData_LatOnly(b) ==
    \/ b.campaign_id = NullId
    \/ ~Truthy(b.scanned_at)
    \/ b.coords = <<>>
    \/ ~TypeofNumber(b.coords[1].lat)

\* A validation that does not look at campaign_id
MissingRequiredScanData_NoCampaign(b) ==
    \/ ~Truthy(b.scanned_at)
    \/ b.coords = <<>>
    \/ ~TypeofNumber(b.coords[1].lat)
    \/ ~TypeofNumber(b.coords[1].lon)

MissingRequiredScanData(b) ==
    \/ b.campaign_id = NullId
    \/ ~Truthy(b.scanned_at)
    \/ b.coords = <<>>
    \/ ~TypeofNumber(b.coords[1].lat)
    \/ ~TypeofNumber(b.coords[1].lon)

\* if (!city || !suburb || !region)
NeedsGeocode(city, suburb, region) == ~Truthy(city) \/ ~Truthy(suburb) \/ ~Truthy(region)

\* if (!weather && coords.lat && coords.lon)
NeedsWeather(weather, coords) ==
    weather = <<>> /\ NumTruthy(coords.lat) /\ NumTruthy(coords.lon)

NoAddress ==
    [ city |-> UNDEFINED, town |-> UNDEFINED, village |-> UNDEFINED, suburb |-> UNDEFINED,
      neighbourhood |-> UNDEFINED, state |-> UNDEFINED, region |-> UNDEFINED ]

\* What the fetch of nominatim.openstreetmap.org can do: reject (network
\* error), or resolve with a status and a body that json() cannot parse,
\* that has no address, or that has one.
GeoOutcomes ==
    { [kind |-> "throw", ok |-> FALSE, body |-> "none", address |-> NoAddress],
      [kind |-> "response", ok |-> TRUE, body |-> "unparsable", address |-> NoAddress],
      [kind |-> "response", ok |-> TRUE, body |-> "object", address |-> NoAddress],
      [kind |-> "response", ok |-> TRUE, body |-> "address",
       address |-> [NoAddress EXCEPT !.city = "Lower Hutt", !.suburb = "Alicetown",
                                     !.state = "Wellington"]],
      [kind |-> "response", ok |-> TRUE, body |-> "address",
       address |-> [NoAddress EXCEPT !.town = "Featherston"]],
      [kind |-> "response", ok |-> FALSE, body |-> "address",
       address |-> [NoAddress EXCEPT !.city = "Lower Hutt", !.suburb = "Alicetown",
                                     !.state = "Wellington"]] }

NoGeo == [kind |-> "none", ok |-> FALSE, body |-> "none", address |-> NoAddress]

\* The try block of the reverse geocode: the place names after it.  A
\* rejected fetch and a body json() cannot parse throw, and the catch leaves
\* the names as they were.
GeoNames(names, g) ==
    IF g.kind = "response" /\ g.body = "address"
    THEN [ city |-> Or(names.city, Or(g.address.city, Or(g.address.town,
                                   Or(g.address.village, NULLV)))),
           suburb |-> Or(names.suburb, Or(g.address.suburb,
                                       Or(g.address.neighbourhood, NULLV))),
           region |-> Or(names.region, Or(g.address.state, Or(g.address.region, NULLV))) ]
    ELSE names

NoWeatherData ==
    [ temp |-> UNDEFINED, feels_like |-> UNDEFINED, humidity |-> UNDEFINED,
      wind_speed |-> UNDEFINED, condition |-> UNDEFINED, description |-> UNDEFINED ]

\* What the fetch of api.openweathermap.org can do; data holds what the
\* handler reads from the body: main?.temp, wind?.speed, weather?.[0]?.main...
WeatherOutcomes ==
    { [kind |-> "throw", ok |-> FALSE, body |-> "none", data |-> NoWeatherData],
      [kind |-> "response", ok |-> FALSE, body |-> "object", data |-> NoWeatherData],
      [kind |-> "response", ok |-> TRUE, body |-> "unparsable", data |-> NoWeatherData],
      [kind |-> "response", ok |-> TRUE, body |-> "object", data |-> NoWeatherData],
      [kind |-> "response", ok |-> TRUE, body |-> "object",
       data |-> [ temp |-> "11.5", feels_like |-> "9", humidity |-> "80",
                  wind_speed |-> "7.2", condition |-> "Clouds",
                  description |-> "overcast clouds" ]] }

NoWx == [kind |-> "none", ok |-> FALSE, body |-> "none", data |-> NoWeatherData]

\* The try block of the weather enrichment: the weather after it
WeatherAfter(weather, w) ==
    IF w.kind = "response" /\ w.ok /\ w.body = "object" THEN <<w.data>> ELSE weather

\* INSERT INTO scans is accepted: campaign_id REFERENCES campaigns(id) (a
\* column that may be NULL), scanned_at TIMESTAMPTZ NOT NULL, lat and lon
\* NUMERIC NOT NULL
ScanAccepted(cs, r) ==
    /\ r.campaign_id \in { c.id : c \in cs } \cup {NullId}
    /\ r.scanned_at \in ValidTimestamps
    /\ TypeofNumber(r.lat) /\ TypeofNumber(r.lon)

\* createScan: the row it inserts.  The handler passes no converted_order_id,
\* device_type, referrer or scan_source, so the defaults (null) are stored.
ScanRow(id, r) ==
    [ id |-> id, campaign_id |-> r.campaign_id, scanned_at |-> r.scanned_at,
      lat |-> r.lat, lon |-> r.lon,
      city |-> ToDb(r.city), suburb |-> ToDb(r.suburb), region |-> ToDb(r.region),
      weather |-> IF r.weather # <<>> THEN <<JsonParse(JsonStringify(r.weather[1]))>> ELSE <<>>,
      converted_order_id |-> NullId, device_type |-> NULLV, referrer |-> NULLV,
      scan_source |-> NULLV, user_agent |-> ToDb(r.user_agent) ]

IdleSreq ==
    [ pc |-> "idle", body |-> NoScanBody,
      names |-> [city |-> UNDEFINED, suburb |-> UNDEFINED, region |-> UNDEFINED],
      weather |-> <<>>, geo |-> NoGeo, wx |-> NoWx, status |-> NoResponse, stored |-> NullId,
      n |-> 0, calls |-> [geo |-> 0, weather |-> 0, insert |-> 0] ]

\* Where the handler goes after the geocode step
AfterGeo(weather, coords) == IF NeedsWeather(weather, coords) THEN "weather" ELSE "persist"

\* The handler up to its first await: 400, or on to the lookups
ScanBegin(b) ==
    /\ sreq.pc \in {"idle", "done"}
    /\ sreq.n < MaxScanRequests
    /\ sreq' =
         IF MissingRequiredScanData(b)
         THEN [IdleSreq EXCEPT !.pc = "done", !.body = b, !.status = 400, !.n = sreq.n + 1]
         ELSE [IdleSreq EXCEPT
                 !.n = sreq.n + 1,
                 !.pc = IF NeedsGeocode(b.city, b.suburb, b.region) THEN "geo"
                        ELSE AfterGeo(b.weather, b.coords[1]),
                 !.body = b,
                 !.names = [city |-> b.city, suburb |-> b.suburb, region |-> b.region],
                 !.weather = b.weather]
    /\ UNCHANGED <<campaigns, orders, payouts, scans, creq, lreq, rreq, ireq, users, areq>>

\* A handler that sends the geocode request again, once, when it threw
ScanGeocode_RetryOnce(g) ==
    /\ sreq.pc = "geo"
    /\ sreq' = [sreq EXCEPT !.pc = IF g.kind = "throw" /\ sreq.calls.geo = 0 THEN "geo"
                                   ELSE AfterGeo(sreq.weather, sreq.body.coords[1]),
                            !.geo = g, !.names = GeoNames(sreq.names, g),
                            !.calls.geo = @ + 1]
    /\ UNCHANGED <<campaigns, orders, payouts, scans, creq, lreq, rreq, ireq, users, areq>>

\* The reverse geocode fetch settles.  calls counts the fetches and the
\* INSERTs the handler has made for the request.
ScanGeocode(g) ==
    /\ sreq.pc = "geo"
    /\ sreq' = [sreq EXCEPT !.pc = AfterGeo(sreq.weather, sreq.body.coords[1]),
                            !.geo = g, !.names = GeoNames(sreq.names, g),
                            !.calls.geo = @ + 1]
    /\ UNCHANGED <<campaigns, orders, payouts, scans, creq, lreq, rreq, ireq, users, areq>>

\* The weather fetch settles
ScanWeather(w) ==
    /\ sreq.pc = "weather"
    /\ sreq' = [sreq EXCEPT !.pc = "persist", !.wx = w,
                            !.weather = WeatherAfter(sreq.weather, w),
                            !.calls.weather = @ + 1]
    /\ UNCHANGED <<campaigns, orders, payouts, scans, creq, lreq, rreq, ireq, users, areq>>

\* createScan and the 201; a rejected INSERT is not caught and no response
\* is sent.
ScanPersist ==
    /\ sreq.pc = "persist"
    /\ LET r == [ campaign_id |-> sreq.body.campaign_id, scanned_at |-> sreq.body.scanned_at,
                  lat |-> sreq.body.coords[1].lat, lon |-> sreq.body.coords[1].lon,
                  city |-> sreq.names.city, suburb |-> sreq.names.suburb,
                  region |-> sreq.names.region, weather |-> sreq.weather,
                  user_agent |-> Or(sreq.body.meta.user_agent,
                                    sreq.body.meta.header_user_agent) ]
           id == NextId(scans)
       IN  IF ScanAccepted(campaigns, r)
           THEN /\ scans' = scans \cup {ScanRow(id, r)}
                /\ sreq' = [sreq EXCEPT !.pc = "done", !.status = 201, !.stored = id,
                                        !.calls.insert = @ + 1]
           ELSE /\ scans' = scans
                /\ sreq' = [sreq EXCEPT !.pc = "done", !.status = NoResponse,
                                        !.calls.insert = @ + 1]
    /\ UNCHANGED <<campaigns, orders, payouts, creq, lreq, rreq, ireq, users, areq>>

\* Several requests in flight.  Each call of the handler has its own
\* req.body and its own `let` bindings (campaign_id ... user_agent); the
\* calls share the database and nothing else, and every await hands the
\* event loop to the other calls.

\* Request bodies of the concurrent clients: one that needs both lookups and
\* one that needs none
ConcurrentBodies ==
    { b \in ScanBodies :
        /\ ~MissingRequiredScanData(b) /\ b.campaign_id = 1 /\ b.meta = PlainMeta
        /\ b.coords[1].lat # "0" /\ b.coords[1].lon # "0"
        /\ \/ /\ b.city = UNDEFINED /\ b.suburb = UNDEFINED /\ b.region = UNDEFINED
              /\ b.weather = <<>>
           \/ /\ b.city = "Petone" /\ b.suburb # UNDEFINED /\ b.region # UNDEFINED
              /\ b.weather # <<>> }

\* Lookup outcomes of the concurrent clients: a rejected fetch, and answers
\* that differ from one request to the next
ConcurrentGeoOutcomes ==
    { g \in GeoOutcomes : g.kind = "throw" \/ (g.ok /\ g.body = "address") }

ConcurrentWeatherOutcomes ==
    { w \in WeatherOutcomes : w.kind = "throw" \/ (w.ok /\ w.data # NoWeatherData) }

\* The handler of client c up to its first await
ScanBeginBy(c, b) ==
    /\ ireq[c].pc = "idle"
    /\ ireq' = [ireq EXCEPT ![c] =
         IF MissingRequiredScanData(b)
         THEN [IdleSreq EXCEPT !.pc = "done", !.body = b, !.status = 400, !.n = 1]
         ELSE [IdleSreq EXCEPT
                 !.n = 1,
                 !.pc = IF NeedsGeocode(b.city, b.suburb, b.region) THEN "geo"
                        ELSE AfterGeo(b.weather, b.coords[1]),
                 !.body = b,
                 !.names = [city |-> b.city, suburb |-> b.suburb, region |-> b.region],
                 !.weather = b.weather]]
    /\ UNCHANGED <<campaigns, orders, payouts, scans, creq, lreq, sreq, rreq, users, areq>>

\* The geocode fetch of client c settles
ScanGeocodeFor(c, g) ==
    /\ ireq[c].pc = "geo"
    /\ ireq' = [ireq EXCEPT ![c].pc = AfterGeo(ireq[c].weather, ireq[c].body.coords[1]),
                            ![c].geo = g, ![c].names = GeoNames(ireq[c].names, g),
                            ![c].calls.geo = @ + 1]
    /\ UNCHANGED <<campaigns, orders, payouts, scans, creq, lreq, sreq, rreq, users, areq>>

\* The weather fetch of client c settles
ScanWeatherFor(c, w) ==
    /\ ireq[c].pc = "weather"
    /\ ireq' = [ireq EXCEPT ![c].pc = "persist", ![c].wx = w,
                            ![c].weather = WeatherAfter(ireq[c].weather, w),
                            ![c].calls.weather = @ + 1]
    /\ UNCHANGED <<campaigns, orders, payouts, scans, creq, lreq, sreq, rreq, users, areq>>

\* A server that fetches synchronously: no request goes on while another
\* awaits a lookup
ScanPersistFor_Blocking(c) ==
    /\ ireq[c].pc = "persist"
    /\ \A d \in Clients : ireq[d].pc \notin {"geo", "weather"}
    /\ LET q == ireq[c]
           r == [ campaign_id |-> q.body.campaign_id, scanned_at |-> q.body.scanned_at,
                  lat |-> q.body.coords[1].lat, lon |-> q.body.coords[1].lon,
                  city |-> q.names.city, suburb |-> q.names.suburb,
                  region |-> q.names.region, weather |-> q.weather,
                  user_agent |-> Or(q.body.meta.user_agent, q.body.meta.header_user_agent) ]
           id == NextId(scans)
       IN  /\ scans' = scans \cup {ScanRow(id, r)}
           /\ ireq' = [ireq EXCEPT ![c].pc = "done", ![c].status = 201, ![c].stored = id,
                                   ![c].calls.insert = @ + 1]
    /\ UNCHANGED <<campaigns, orders, payouts, creq, lreq, sreq, rreq, users, areq>>

\* createScan and the 201 of client c
ScanPersistFor(c) ==
    /\ ireq[c].pc = "persist"
    /\ LET q == ireq[c]
           r == [ campaign_id |-> q.body.campaign_id, scanned_at |-> q.body.scanned_at,
                  lat |-> q.body.coords[1].lat, lon |-> q.body.coords[1].lon,
                  city |-> q.names.city, suburb |-> q.names.suburb,
                  region |-> q.names.region, weather |-> q.weather,
                  user_agent |-> Or(q.body.meta.user_agent, q.body.meta.header_user_agent) ]
           id == NextId(scans)
       IN  IF ScanAccepted(campaigns, r)
           THEN /\ scans' = scans \cup {ScanRow(id, r)}
                /\ ireq' = [ireq EXCEPT ![c].pc = "done", ![c].status = 201, ![c].stored = id,
                                        ![c].calls.insert = @ + 1]
           ELSE /\ scans' = scans
                /\ ireq' = [ireq EXCEPT ![c].pc = "done", ![c].status = NoResponse,
                                        ![c].calls.insert = @ + 1]
    /\ UNCHANGED <<campaigns, orders, payouts, creq, lreq, sreq, rreq, users, areq>>

----------------------------------------------------------------------------
(* GET /w/:identifier, GET /qrcode/:campaignId, GET /embed/qr/:identifier, *)
(* POST /campaigns/:id/generate-assets                                     *)

BASE_URL == "https://glasscart2.onrender.com"

\* process.env.FRONTEND_URL || BASE_URL
FRONTEND_URL == BASE_URL

\* A UUID as it is written in a URL or a file name
UuidText(id) == "uuid-" \o ToString(id)

\* Texts that PostgreSQL accepts as input of type uuid
UuidTexts == { UuidText(id) : id \in 0..99 }

IsUuid(text) == text \in UuidTexts

\* A text as a template string places it in a URL, unescaped: the characters
\* '/', '?' and '#' each on their own, and the runs of other characters
\* between them.
UrlTokens(text) ==
    CASE text = "cap_sale?src=poster" -> <<"cap_sale", "?", "src=poster">>
      [] OTHER -> <<text>>

\* decodeURIComponent, which Express applies to a route parameter
DecodeURIComponent(token) ==
    CASE token = "cap%5Fsale" -> "cap_sale"
      [] OTHER -> token

\* The path of a request URL: what comes before the first '?' or '#'
RECURSIVE PathOf(_)
PathOf(tokens) ==
    IF tokens = <<>> \/ Head(tokens) \in {"?", "#"} THEN <<>>
    ELSE <<Head(tokens)>> \o PathOf(Tail(tokens))

\* req.query.format
QueryFormat(tokens) ==
    IF \E i \in 1..(Len(tokens) - 1) : tokens[i] = "?" /\ tokens[i + 1] = "format=svg"
    THEN "svg"
    ELSE IF \E i \in 1..(Len(tokens) - 1) : tokens[i] = "?" /\ tokens[i + 1] = "format=png"
    THEN "png"
    ELSE UNDEFINED

\* Express matching a route of the form '<prefix>:param': <<value>> when the
\* path is the prefix and one more segment (a trailing '/' is allowed), <<>>
\* when the route does not match.
RouteParam(prefix, tokens) ==
    LET p == PathOf(tokens)
        q == IF Len(p) = Len(prefix) + 2 /\ p[Len(p)] = "/"
             THEN SubSeq(p, 1, Len(p) - 1) ELSE p
    IN  IF /\ Len(q) = Len(prefix) + 1
           /\ SubSeq(q, 1, Len(prefix)) = prefix
           /\ q[Len(q)] # "/"
        THEN <<DecodeURIComponent(q[Len(q)])>>
        ELSE <<>>

WRoute == <<"/", "w", "/">>

QrcodeRoute == <<"/", "qrcode", "/">>

EmbedRoute == <<"/", "embed", "/", "qr", "/">>

\* A lookup that folds case, as a case-insensitive collation would
Lower(text) == CASE text = "CAP_SALE" -> "cap_sale" [] OTHER -> text

GetCampaignByIdentifier_IgnoreCase(cs, identifier) ==
    { c \in cs : Lower(c.qr_code_identifier) = Lower(identifier) }

\* SELECT * FROM campaigns WHERE qr_code_identifier=$1
GetCampaignByIdentifier(cs, identifier) == { c \in cs : c.qr_code_identifier = identifier }

\* SELECT * FROM campaigns WHERE id=$1.  The column is a UUID: a parameter
\* that is not the text of a UUID makes the query fail.
GetCampaignById(cs, id) ==
    [ error |-> ~IsUuid(id),
      rows |-> IF IsUuid(id) THEN { c \in cs : UuidText(c.id) = id } ELSE {} ]

\* A target URL that carries a stamp of the table it was generated from
TargetUrl_Stamped(c) ==
    [ base |-> BASE_URL,
      path |-> WRoute \o UrlTokens(c.qr_code_identifier)
                 \o <<"?", "v=" \o ToString(Cardinality(campaigns))>> ]

\* `${BASE_URL}/w/${campaign.qr_code_identifier}`
TargetUrl(c) == [base |-> BASE_URL, path |-> WRoute \o UrlTokens(c.qr_code_identifier)]

\* `${FRONTEND_URL}/products/${campaign.product_id}`
ProductPage(product_id) ==
    [base |-> FRONTEND_URL, path |-> <<"/", "products", "/", UuidText(product_id)>>]

\* The last request and its response; status NoResponse when none was sent.
\* sent holds the statuses of the handler's calls of res.send, res.end,
\* res.json and res.redirect, in order (the first is the response, a later
\* one throws ERR_HTTP_HEADERS_SENT), encoded the QRCode calls it made.
NoRreq ==
    [ op |-> "none", url |-> <<>>, param |-> <<>>, format |-> UNDEFINED, status |-> NoResponse,
      location |-> <<>>, content_type |-> UNDEFINED, filename |-> UNDEFINED, asset |-> <<>>,
      json |-> <<>>, sent |-> <<>>, encoded |-> <<>> ]

\* Express's answer to a path no route matches
NotRouted(tokens) ==
    [NoRreq EXCEPT !.op = "no route", !.url = tokens, !.status = 404, !.sent = <<404>>]

\* app.get('/w/:identifier'): 404 when no campaign has the identifier, else
\* res.redirect (302) to the product page
WResponse(cs, tokens) ==
    LET param == RouteParam(WRoute, tokens)
        rows == GetCampaignByIdentifier(cs, param[1])
    IN  IF param = <<>> THEN NotRouted(tokens)
        ELSE IF rows = {}
        THEN [NoRreq EXCEPT !.op = "GET /w", !.url = tokens, !.param = param,
                            !.status = 404, !.sent = <<404>>]
        ELSE [NoRreq EXCEPT !.op = "GET /w", !.url = tokens, !.param = param,
                            !.status = 302, !.sent = <<302>>,
                            !.location = <<ProductPage((CHOOSE c \in rows : TRUE).product_id)>>]

\* An identifier of 3000 characters (the column is TEXT, of any length)
LongIdentifier == "id-of-3000-chars"

\* QRCode.toString and QRCode.toBuffer resolve: the data fits a QR code
\* (version 40 holds less than 3000 bytes), else they reject
Encodable(url) == \A i \in 1..Len(url.path) : url.path[i] # LongIdentifier

\* app.get('/qrcode/:campaignId'): a failed lookup is not caught (no
\* response), an unknown campaign is 404, else the image that encodes
\* targetUrl, as SVG for format=svg and as PNG otherwise.  When
\* QRCode.toString rejects, the catch sends 500 and does not return: the
\* handler goes on to the PNG block, whose res.set or (toBuffer having
\* rejected as well) whose catch calls res.status(500).send a second time.
QrcodeResponse(cs, tokens) ==
    LET param == RouteParam(QrcodeRoute, tokens)
        format == QueryFormat(tokens)
        found == GetCampaignById(cs, param[1])
        r == [NoRreq EXCEPT !.op = "GET /qrcode", !.url = tokens, !.param = param,
                            !.format = format]
    IN  IF param = <<>> THEN NotRouted(tokens)
        ELSE IF found.error THEN r
        ELSE IF found.rows = {} THEN [r EXCEPT !.status = 404, !.sent = <<404>>]
        ELSE LET targetUrl == TargetUrl(CHOOSE c \in found.rows : TRUE)
             IN  IF format = "svg" /\ Encodable(targetUrl)
                 THEN [r EXCEPT !.status = 200, !.sent = <<200>>, !.encoded = <<"svg">>,
                                !.content_type = "image/svg+xml",
                                !.filename = "qr-" \o param[1] \o ".svg",
                                !.asset = <<[type |-> "svg", encodes |-> targetUrl]>>]
                 ELSE IF format = "svg"
                 THEN [r EXCEPT !.status = 500, !.sent = <<500, 500>>,
                                !.encoded = <<"svg", "png">>]
                 ELSE IF Encodable(targetUrl)
                 THEN [r EXCEPT !.status = 200, !.sent = <<200>>, !.encoded = <<"png">>,
                                !.content_type = "image/png",
                                !.filename = "qr-" \o param[1] \o ".png",
                                !.asset = <<[type |-> "png", encodes |-> targetUrl]>>]
                 ELSE [r EXCEPT !.status = 500, !.sent = <<500>>, !.encoded = <<"png">>]

\* The snippet of app.get('/embed/qr/:identifier')
EmbedSnippet(identifier) ==
    [ src |-> [base |-> BASE_URL, path |-> QrcodeRoute \o UrlTokens(identifier)],
      width |-> "150", height |-> "150", frameborder |-> <<"0">> ]

EmbedResponse(tokens) ==
    LET param == RouteParam(EmbedRoute, tokens)
    IN  IF param = <<>> THEN NotRouted(tokens)
        ELSE [NoRreq EXCEPT !.op = "GET /embed/qr", !.url = tokens, !.param = param,
                            !.status = 200, !.sent = <<200>>,
                            !.json = <<[embedCode |-> EmbedSnippet(param[1])]>>]

\* app.post('/campaigns/:id/generate-assets')
GenerateAssetsResponse(cs, id) ==
    LET found == GetCampaignById(cs, id)
        r == [NoRreq EXCEPT !.op = "POST generate-assets", !.param = <<id>>]
    IN  IF found.error THEN r
        ELSE IF found.rows = {}
        THEN [r EXCEPT !.status = 404, !.sent = <<404>>, !.json = <<[error |-> "Not found"]>>]
        ELSE LET campaign == CHOOSE c \in found.rows : TRUE
                 uuid == UuidText(campaign.id)
                 identifier == campaign.qr_code_identifier
             IN  [r EXCEPT !.status = 200, !.sent = <<200>>,
                    !.json = <<[
                      qrPngUrl |-> [base |-> BASE_URL,
                                    path |-> QrcodeRoute \o <<uuid, "?", "format=png">>],
                      qrSvgUrl |-> [base |-> BASE_URL,
                                    path |-> QrcodeRoute \o <<uuid, "?", "format=svg">>],
                      shortLink |-> [base |-> BASE_URL,
                                     path |-> WRoute \o UrlTokens(identifier)],
                      embedCode |-> [ src |-> [base |-> BASE_URL,
                                               path |-> EmbedRoute \o UrlTokens(identifier)],
                                      width |-> "150", height |-> "150",
                                      frameborder |-> <<>> ] ]>>]

\* The server's answer to a GET of a URL on BASE_URL
ServeGet(cs, tokens) ==
    IF RouteParam(WRoute, tokens) # <<>> THEN WResponse(cs, tokens)
    ELSE IF RouteParam(QrcodeRoute, tokens) # <<>> THEN QrcodeResponse(cs, tokens)
    ELSE IF RouteParam(EmbedRoute, tokens) # <<>> THEN EmbedResponse(tokens)
    ELSE NotRouted(tokens)

\* Requests: identifiers that are stored, that differ from a stored one in
\* case or by an escape, and that are unknown; campaign ids that are stored,
\* unknown, and not UUIDs at all
WRequests ==
    { WRoute \o UrlTokens(t) :
        t \in {"cap_sale", "CAP_SALE", "cap%5Fsale", "nosuch", "cap_sale?src=poster"} }

CampaignIdParams == {UuidText(1), UuidText(5)} \cup { UuidText(id) : id \in UnknownIds } \cup {"cap_sale"}

QrcodeRequests ==
    { QrcodeRoute \o <<id>> \o q :
        id \in CampaignIdParams, q \in {<<>>, <<"?", "format=png">>, <<"?", "format=svg">>} }

EmbedRequests == { EmbedRoute \o UrlTokens(t) : t \in {"cap_sale", "summer2025"} }

GetW(tokens) ==
    /\ rreq' = WResponse(campaigns, tokens)
    /\ UNCHANGED <<campaigns, orders, payouts, scans, creq, lreq, sreq, ireq, users, areq>>

GetQrcode(tokens) ==
    /\ rreq' = QrcodeResponse(campaigns, tokens)
    /\ UNCHANGED <<campaigns, orders, payouts, scans, creq, lreq, sreq, ireq, users, areq>>

GetEmbedQr(tokens) ==
    /\ rreq' = EmbedResponse(tokens)
    /\ UNCHANGED <<campaigns, orders, payouts, scans, creq, lreq, sreq, ireq, users, areq>>

GenerateAssets(id) ==
    /\ rreq' = GenerateAssetsResponse(campaigns, id)
    /\ UNCHANGED <<campaigns, orders, payouts, scans, creq, lreq, sreq, ireq, users, areq>>

----------------------------------------------------------------------------
(* GET /analytics/scans/summary/city,                                      *)
(* GET /analytics/scans/summary/campaign/:campaignId                       *)

\* GROUP BY city: one group per distinct value, NULL being one of them
Cities(ss) == { s.city : s \in ss }

\* COUNT(*) of a group
CityCount(ss, city) == Cardinality({ s \in ss : s.city = city })

\* ORDER BY scan_count DESC; the order among equal counts is PostgreSQL's
RECURSIVE OrderByScanCountDesc(_, _)
OrderByScanCountDesc(ss, cities) ==
    IF cities = {} THEN <<>>
    ELSE LET top == CHOOSE c \in cities :
                        \A d \in cities : CityCount(ss, d) <= CityCount(ss, c)
         IN  <<[city |-> top, scan_count |-> CityCount(ss, top)]>>
               \o OrderByScanCountDesc(ss, cities \ {top})

\* A summary over the scans that have a city
GetScanSummaryByCity_NamedOnly(ss) == OrderByScanCountDesc(ss, Cities(ss) \ {NULLV})

\* getScanSummaryByCity: the rows, with city and scan_count (the averages of
\* lat and lon are left out)
GetScanSummaryByCity(ss) == OrderByScanCountDesc(ss, Cities(ss))

\* getScanSummaryByCampaign, which no route calls: the counts of its one row
GetScanSummaryByCampaign(ss, campaignId) ==
    LET mine == { s \in ss : UuidText(s.campaign_id) = campaignId }
    IN  [ scan_count |-> Cardinality(mine),
          conversions |-> Cardinality({ s \in mine : s.converted_order_id # NullId }) ]

\* The instants of the timestamps, in days of 2025
Instant(scanned_at) ==
    CASE scanned_at = "2025-05-10T18:30:00Z" -> 130
      [] scanned_at = "2025-06-10T09:00:00Z" -> 161
      [] scanned_at = "2025-07-20T11:00:00Z" -> 201
      [] scanned_at = "2025-08-15T21:30:00Z" -> 227
      [] scanned_at = "2025-11-05T14:00:00Z" -> 309

\* ORDER BY scanned_at DESC
RECURSIVE OrderByScannedAtDesc(_)
OrderByScannedAtDesc(ss) ==
    IF ss = {} THEN <<>>
    ELSE LET last == CHOOSE s \in ss :
                        \A t \in ss : Instant(t.scanned_at) <= Instant(s.scanned_at)
         IN  <<last>> \o OrderByScannedAtDesc(ss \ {last})

\* getScansByCampaign: the campaign's scans, latest first; campaign_id is a
\* UUID column, so a parameter that is not a UUID makes the query fail
GetScansByCampaign(ss, campaignId) ==
    [ error |-> ~IsUuid(campaignId),
      rows |-> IF IsUuid(campaignId)
               THEN OrderByScannedAtDesc({ s \in ss : UuidText(s.campaign_id) = campaignId })
               ELSE <<>> ]

\* The object the campaign route makes of a scan row
ScanView(scan) ==
    [ campaign_id |-> scan.campaign_id, scanned_at |-> scan.scanned_at,
      coords |-> [lat |-> scan.lat, lon |-> scan.lon],
      city |-> scan.city, suburb |-> scan.suburb, region |-> scan.region,
      weather |-> scan.weather, user_agent |-> scan.user_agent ]

\* app.get('/analytics/scans/summary/city')
GetSummaryCity ==
    /\ rreq' = [NoRreq EXCEPT !.op = "GET summary/city", !.status = 200, !.sent = <<200>>,
                              !.json = <<[kind |-> "array",
                                          items |-> GetScanSummaryByCity(scans)]>>]
    /\ UNCHANGED <<campaigns, orders, payouts, scans, creq, lreq, sreq, ireq, users, areq>>

\* app.get('/analytics/scans/summary/campaign/:campaignId'), for a request
\* that has passed requireRetailerAuth
GetSummaryCampaign(campaignId) ==
    /\ LET found == GetScansByCampaign(scans, campaignId)
           r == [NoRreq EXCEPT !.op = "GET summary/campaign", !.param = <<campaignId>>]
       IN  rreq' = IF found.error THEN r
                   ELSE [r EXCEPT !.status = 200, !.sent = <<200>>,
                           !.json = <<[kind |-> "array",
                                       items |-> [i \in 1..Len(found.rows) |->
                                                    ScanView(found.rows[i])]]>>]
    /\ UNCHANGED <<campaigns, orders, payouts, scans, creq, lreq, sreq, ireq, users, areq>>

\* Ingestion requests for campaign 1 that pass validation, need no weather
\* lookup and come from a browser
SummaryBodies ==
    { b \in ScanBodies :
        /\ ~MissingRequiredScanData(b) /\ b.campaign_id = 1
        /\ b.coords[1].lat # "0" /\ b.coords[1].lon # "0"
        /\ b.weather # <<>> /\ b.meta = PlainMeta }

----------------------------------------------------------------------------
(* requireRetailerAuth and the /retailers routes *)

\* The Authorization header of a request: whether it is there and starts
\* with 'Bearer ', whether jwt.verify accepts the token, and the payload
NoAuthorization == [bearer |-> FALSE, verifies |-> FALSE, role |-> UNDEFINED, id |-> NullId]

AuthorizationCases ==
    { NoAuthorization,
      [bearer |-> TRUE, verifies |-> FALSE, role |-> "retailer", id |-> 1],
      [bearer |-> TRUE, verifies |-> TRUE, role |-> "customer", id |-> 5],
      [bearer |-> TRUE, verifies |-> TRUE, role |-> "retailer", id |-> 1],
      [bearer |-> TRUE, verifies |-> TRUE, role |-> "retailer", id |-> 8] }

\* requireRetailerAuth: the status it answers, or 0 when it calls next()
RequireRetailerAuth(auth) ==
    IF ~auth.bearer THEN 401
    ELSE IF ~auth.verifies THEN 401
    ELSE IF auth.role # "retailer" THEN 403
    ELSE 0

\* The layers that index.js registers for paths under /retailers, in the
\* order of its app.get / app.post / app.put / app.delete / app.use calls
RetailerStack ==
    << [line |-> 741, method |-> "GET", pattern |-> <<"retailers">>, fn |-> "list"],
       [line |-> 765, method |-> "GET", pattern |-> <<"retailers", ":id">>, fn |-> "get"],
       [line |-> 793, method |-> "POST", pattern |-> <<"retailers">>, fn |-> "create"],
       [line |-> 838, method |-> "PUT", pattern |-> <<"retailers", ":id">>, fn |-> "update"],
       [line |-> 868, method |-> "DELETE", pattern |-> <<"retailers", ":id">>, fn |-> "delete"],
       [line |-> 912, method |-> "POST", pattern |-> <<"retailers", "login">>, fn |-> "login"],
       [line |-> 939, method |-> "USE", pattern |-> <<"retailers">>, fn |-> "requireRetailerAuth"] >>

\* Express matching a layer: app.use matches by prefix, a route by method
\* and by the whole path, ':id' standing for any segment
Matches(layer, req) ==
    IF layer.method = "USE"
    THEN /\ Len(req.path) >= Len(layer.pattern)
         /\ SubSeq(req.path, 1, Len(layer.pattern)) = layer.pattern
    ELSE /\ layer.method = req.method
         /\ Len(req.path) = Len(layer.pattern)
         /\ \A i \in 1..Len(req.path) :
               layer.pattern[i] = ":id" \/ layer.pattern[i] = req.path[i]

\* The functions that run for a request, in order: Express goes down the
\* stack from layer i, runs the first layer that matches, and goes on only
\* if that function calls next(); the route handlers never do.
RECURSIVE Ran(_, _, _)
Ran(stack, i, req) ==
    IF i > Len(stack) THEN <<"finalhandler">>
    ELSE IF ~Matches(stack[i], req) THEN Ran(stack, i + 1, req)
    ELSE IF stack[i].fn = "requireRetailerAuth"
    THEN IF RequireRetailerAuth(req.auth) = 0
         THEN <<"requireRetailerAuth">> \o Ran(stack, i + 1, req)
         ELSE <<"requireRetailerAuth">>
    ELSE <<stack[i].fn>>

Handlers == {"list", "get", "create", "update", "delete", "login"}

\* uuidv4(): an id no row has
FreshUserId(us) == (CHOOSE m \in { u.id : u \in us } : \A u \in us : u.id <= m) + 1

\* Rows that reference users(id): a user they name cannot be deleted
UserReferenced(id) ==
    \/ \E p \in SeedProducts : p.distributor_id = id
    \/ \E c \in campaigns : c.retailer_id = id
    \/ \E o \in orders : o.customer_id = id
    \/ \E p \in payouts : p.recipient_id = id

\* What the function that ends the request does: the users table after it,
\* the status it answers (NoResponse when its query failed uncaught) and
\* whether it sent a query on table users
Outcome(us, req, fn) ==
    LET id == req.path[Len(req.path)]
        mine == { u \in us : UuidText(u.id) = id /\ u.role = "retailer" }
        taken(email) == \E u \in us : u.email = email /\ u \notin mine
        r == [users |-> us, status |-> NoResponse, queried |-> TRUE]
    IN  CASE fn = "finalhandler" -> [r EXCEPT !.status = 404, !.queried = FALSE]
          [] fn = "requireRetailerAuth" ->
                [r EXCEPT !.status = RequireRetailerAuth(req.auth), !.queried = FALSE]
          [] fn = "list" -> [r EXCEPT !.status = 200]
          [] fn = "get" ->
                IF ~IsUuid(id) THEN r
                ELSE IF mine = {} THEN [r EXCEPT !.status = 404]
                ELSE [r EXCEPT !.status = 200]
          [] fn = "create" ->
                IF ~Truthy(req.body.name) \/ ~Truthy(req.body.email)
                THEN [r EXCEPT !.status = 400, !.queried = FALSE]
                ELSE IF \E u \in us : u.email = req.body.email THEN [r EXCEPT !.status = 400]
                ELSE [r EXCEPT !.status = 201,
                               !.users = us \cup {[id |-> FreshUserId(us), role |-> "retailer",
                                                   email |-> req.body.email]}]
          [] fn = "update" ->
                IF ~IsUuid(id) THEN r
                ELSE IF mine = {} THEN [r EXCEPT !.status = 404]
                ELSE IF ~Truthy(req.body.email) THEN [r EXCEPT !.status = 200]
                ELSE IF taken(req.body.email) THEN r
                ELSE [r EXCEPT !.status = 200,
                               !.users = (us \ mine)
                                           \cup { [u EXCEPT !.email = req.body.email] : u \in mine }]
          [] fn = "delete" ->
                IF ~IsUuid(id) THEN r
                ELSE IF mine = {} THEN [r EXCEPT !.status = 404]
                ELSE IF \E u \in mine : UserReferenced(u.id) THEN r
                ELSE [r EXCEPT !.status = 204, !.users = us \ mine]
          [] fn = "login" -> r

NoAreq ==
    [ method |-> "", path |-> <<>>, auth |-> NoAuthorization, ran |-> <<>>,
      status |-> NoResponse, queried |-> FALSE, json |-> <<>> ]

RetailerBodies ==
    { [name |-> UNDEFINED, email |-> UNDEFINED],
      [name |-> "Outdoor Shop", email |-> "shop@example.com"],
      [name |-> "Kathmandu Two", email |-> "retailer@kathmandu.co.nz"] }

\* Requests to paths under /retailers: the five routes, the login route, and
\* a method no route has
RetailerRequests ==
    [ method : {"GET", "POST", "PUT", "DELETE", "PATCH"},
      path : { <<"retailers">>, <<"retailers", UuidText(1)>>, <<"retailers", UuidText(8)>>,
               <<"retailers", "login">> },
      auth : AuthorizationCases,
      body : RetailerBodies ]

\* The server's answer to a request to a path under /retailers
RetailersRequest(req) ==
    /\ LET ran == Ran(RetailerStack, 1, req)
           out == Outcome(users, req, ran[Len(ran)])
       IN  /\ users' = out.users
           /\ areq' = [NoAreq EXCEPT !.method = req.method, !.path = req.path,
                                     !.auth = req.auth, !.ran = ran, !.status = out.status,
                                     !.queried = out.queried]
    /\ UNCHANGED <<campaigns, orders, payouts, scans, creq, lreq, sreq, rreq, ireq>>

\* app.get('/analytics/scans/summary/campaign/:campaignId', requireRetailerAuth,
\* handler): the check, and then the handler if the check calls next().  The
\* handler reads req.params.campaignId only; req.user is never read.
GetSummaryCampaignAs(auth, campaignId) ==
    /\ LET denied == RequireRetailerAuth(auth)
           found == GetScansByCampaign(scans, campaignId)
           r == [NoAreq EXCEPT !.method = "GET", !.auth = auth,
                               !.path = <<"analytics", "scans", "summary", "campaign",
                                          campaignId>>]
       IN  areq' = IF denied # 0
                   THEN [r EXCEPT !.ran = <<"requireRetailerAuth">>, !.status = denied]
                   ELSE IF found.error
                   THEN [r EXCEPT !.ran = <<"requireRetailerAuth", "summary">>,
                                  !.queried = TRUE]
                   ELSE [r EXCEPT !.ran = <<"requireRetailerAuth", "summary">>,
                                  !.queried = TRUE, !.status = 200,
                                  !.json = <<[kind |-> "array",
                                              items |-> [i \in 1..Len(found.rows) |->
                                                           ScanView(found.rows[i])]]>>]
    /\ UNCHANGED <<campaigns, orders, payouts, scans, creq, lreq, sreq, rreq, ireq, users>>

----------------------------------------------------------------------------
(* Specifications *)

Init ==
    /\ campaigns = SeedCampaigns
    /\ orders = SeedOrders
    /\ payouts = SeedPayouts
    /\ scans = SeedScans
    /\ creq = [c \in Clients |-> IdleCreq]
    /\ lreq = IdleLreq
    /\ sreq = IdleSreq
    /\ rreq = NoRreq
    /\ ireq = [c \in Clients |-> IdleSreq]
    /\ users = SeedUsers
    /\ areq = NoAreq

NextCampaigns ==
    \/ \E c \in Clients, f \in CampaignBodies : CreateCampaignBegin(c, f)
    \/ \E c \in Clients : CreateCampaignInsert(c)

NextLedger ==
    \/ \E f \in OrderBodies : PostOrders(f)
    \/ \E f \in PayoutBodies : PostPayouts(f)

NextScans ==
    \/ \E b \in ScanBodies : ScanBegin(b)
    \/ \E g \in GeoOutcomes : ScanGeocode(g)
    \/ \E w \in WeatherOutcomes : ScanWeather(w)
    \/ ScanPersist

NextLinks ==
    \/ \E tokens \in WRequests : GetW(tokens)
    \/ \E tokens \in QrcodeRequests : GetQrcode(tokens)
    \/ \E tokens \in EmbedRequests : GetEmbedQr(tokens)
    \/ \E id \in CampaignIdParams : GenerateAssets(id)

\* The summaries, while scans are ingested
NextSummaries ==
    \/ \E b \in SummaryBodies : ScanBegin(b)
    \/ \E g \in GeoOutcomes : ScanGeocode(g)
    \/ ScanPersist
    \/ GetSummaryCity
    \/ \E campaignId \in CampaignIdParams : GetSummaryCampaign(campaignId)

\* Scan ingestion by several clients at once
NextConcurrentScans ==
    \/ \E c \in Clients, b \in ConcurrentBodies : ScanBeginBy(c, b)
    \/ \E c \in Clients, g \in ConcurrentGeoOutcomes : ScanGeocodeFor(c, g)
    \/ \E c \in Clients, w \in ConcurrentWeatherOutcomes : ScanWeatherFor(c, w)
    \/ \E c \in Clients : ScanPersistFor(c)

NextRetailers == \E req \in RetailerRequests : RetailersRequest(req)

\* Retailers being created, scans arriving, and retailers reading the scans
\* of a campaign
NextOwnedSummaries ==
    \/ \E req \in RetailerRequests :
          req.method = "POST" /\ req.path = <<"retailers">> /\ RetailersRequest(req)
    \/ \E b \in SummaryBodies : ScanBegin(b)
    \/ \E g \in GeoOutcomes : ScanGeocode(g)
    \/ ScanPersist
    \/ \E auth \in AuthorizationCases, campaignId \in CampaignIdParams :
          GetSummaryCampaignAs(auth, campaignId)

Next ==
    \/ NextCampaigns \/ NextLedger \/ NextScans \/ NextLinks \/ NextSummaries
    \/ NextConcurrentScans \/ NextRetailers \/ NextOwnedSummaries

\* Campaign creation alone, the ledger routes alone, scan ingestion alone,
\* and the whole server
SpecCampaigns == Init /\ [][NextCampaigns]_vars

SpecLedger == Init /\ [][NextLedger]_vars

SpecScans == Init /\ [][NextScans]_vars

SpecSummaries == Init /\ [][NextSummaries]_vars

\* The link and asset routes, while one client creates a campaign
NextLinksAndCreate ==
    \/ \E f \in CampaignBodies : CreateCampaignBegin(1, f)
    \/ CreateCampaignInsert(1)
    \/ NextLinks

SpecLinks == Init /\ [][NextLinksAndCreate]_vars

SpecRetailers == Init /\ [][NextRetailers]_vars

SpecOwnedSummaries == Init /\ [][NextOwnedSummaries]_vars

Spec == Init /\ [][Next]_vars

\* Accepted orders that name a scan: a converted one (1), an unconverted one (3)
ConversionBodies ==
    { f \in OrderBodies :
        /\ f.scan_id # NullId /\ OrderAccepted(SeedCampaigns, f)
        /\ f.campaign_id = 1 /\ f.commission_amount = <<1000>> }

\* The life of a scan: ingestion, the routes that read scans, and orders
\* placed after a scan
NextScanLife ==
    \/ \E b \in SummaryBodies : ScanBegin(b)
    \/ \E g \in GeoOutcomes : ScanGeocode(g)
    \/ ScanPersist
    \/ \E f \in ConversionBodies : PostOrders(f)
    \/ GetSummaryCity
    \/ \E campaignId \in {UuidText(1)} : GetSummaryCampaign(campaignId)

SpecScanLife == Init /\ [][NextScanLife]_vars

\* Scan ingestion with the scheduling the handler can count on: once its
\* lookups have settled, the event loop runs createScan and the response.
\* When a fetch settles is up to the remote service: the handler passes no
\* timeout and no abort signal to fetch, so nothing in the code makes
\* ScanGeocode or ScanWeather happen, and they get no fairness.
SpecScansLive == SpecScans /\ WF_vars(ScanPersist)

\* Concurrent ingestion with the same scheduling: each request whose lookups
\* have settled gets to its createScan, whatever the other requests do; no
\* lookup is made to settle.
SpecConcurrentScans ==
    /\ Init /\ [][NextConcurrentScans]_vars
    /\ \A c \in Clients : WF_vars(ScanPersistFor(c))

----------------------------------------------------------------------------
(* Campaign creation: C1, C2 *)

\* A create that would be stored were its identifier new to the table: the
\* four required fields and an integer commission_percent are given, and
\* the retailer and the product exist.
ValidCreate(b) ==
    /\ b.retailer_id \in UserIds /\ b.product_id \in ProductIds
    /\ b.campaign_name # "" /\ b.qr_code_identifier # ""
    /\ Len(b.commission_percent) = 1

IdentifierHeldByAnother(c) ==
    \E row \in campaigns :
        /\ row.qr_code_identifier = creq[c].body.qr_code_identifier
        /\ row.id # creq[c].created

\* C1: a valid campaign creation whose qr_code_identifier a stored campaign
\* already carries is answered 400 with the message 'QR code identifier must
\* be unique.' and stores nothing; the stored campaigns are the seeded ones
\* plus one row per create answered 201, so a failed create changes none of
\* them; and no two stored campaigns share a qr_code_identifier.
C1_DuplicateIdentifierRejected ==
    /\ \A c \in Clients :
         (creq[c].pc = "done" /\ ValidCreate(creq[c].body) /\ IdentifierHeldByAnother(c))
            => /\ creq[c].status = 400
               /\ creq[c].error = <<UniqueMessage>>
               /\ creq[c].created = NullId
    /\ SeedCampaigns \subseteq campaigns
    /\ \A c \in Clients :
         creq[c].status = 201 =>
            \E row \in campaigns :
               /\ row.id = creq[c].created
               /\ row.qr_code_identifier = creq[c].body.qr_code_identifier
    /\ Cardinality(campaigns)
         = Cardinality(SeedCampaigns) + Cardinality({ c \in Clients : creq[c].status = 201 })
    /\ \A a, b \in campaigns : a.qr_code_identifier = b.qr_code_identifier => a = b

\* One client has created 'summer2025' and another client's valid create of
\* the same identifier has been refused with the uniqueness message.
C1_Witness ==
    \E c, d \in Clients :
        /\ c # d
        /\ creq[c].status = 201 /\ creq[c].body.qr_code_identifier = "summer2025"
        /\ creq[d].pc = "done" /\ ValidCreate(creq[d].body)
        /\ creq[d].body.qr_code_identifier = "summer2025"
        /\ creq[d].status = 400 /\ creq[d].error = <<UniqueMessage>>

\* C2: of two create requests with the same identifier, whatever the order
\* of their steps, at most one is answered 201; once one is, the other is
\* answered 400 when it finishes (with the uniqueness message if it is a
\* valid create); and at no point do two stored campaigns share an identifier.
C2_AtMostOneConcurrentCreateWins ==
    /\ \A c, d \in Clients :
         (c # d /\ creq[c].body.qr_code_identifier # ""
                /\ creq[c].body.qr_code_identifier = creq[d].body.qr_code_identifier)
            => /\ ~(creq[c].status = 201 /\ creq[d].status = 201)
               /\ (creq[c].status = 201 /\ creq[d].pc = "done") => creq[d].status = 400
               /\ (creq[c].status = 201 /\ creq[d].pc = "done" /\ ValidCreate(creq[d].body))
                     => creq[d].error = <<UniqueMessage>>
    /\ \A a, b \in campaigns : a.id # b.id => a.qr_code_identifier # b.qr_code_identifier

\* Two creates of the same new identifier were awaiting their INSERTs at the
\* same time; one has been answered 201 and the other 400.
C2_Witness ==
    \E c, d \in Clients :
        /\ c # d
        /\ creq[c].racing /\ creq[d].racing
        /\ creq[c].body.qr_code_identifier = "summer2025"
        /\ creq[d].body.qr_code_identifier = "summer2025"
        /\ creq[c].status = 201
        /\ creq[d].pc = "done" /\ creq[d].status = 400 /\ creq[d].error = <<UniqueMessage>>

----------------------------------------------------------------------------
(* Commission ledger and attribution: C3 - C6 *)

RECURSIVE SumAmounts(_)
SumAmounts(ps) ==
    IF ps = {} THEN 0
    ELSE LET p == CHOOSE q \in ps : TRUE IN p.amount + SumAmounts(ps \ {p})

PayoutsOf(o) == { p \in payouts : p.order_id = o.id }

CampaignOf(o) == CHOOSE c \in campaigns : c.id = o.campaign_id

\* round(total * percent / 100), halves up, in cents
HalfUpShare(total, percent) == (2 * total * percent + 100) \div 200

\* C3: for every stored order with a campaign reference, the amounts of the
\* payouts recorded for it add up to the order's total_amount.
C3_PayoutsSumToTotal ==
    \A o \in orders :
        o.campaign_id # NullId => SumAmounts(PayoutsOf(o)) = o.total_amount

\* C4: for every stored order with a campaign reference, commission_amount
\* is round(total_amount * commission_percent / 100) with halves rounded up,
\* every advertiser_commission payout of the order has that amount and every
\* distributor_revenue payout has total_amount minus it.
C4_CommissionIsRoundedShare ==
    \A o \in orders :
        o.campaign_id # NullId =>
            LET k == HalfUpShare(o.total_amount, CampaignOf(o).commission_percent)
            IN  /\ o.commission_amount = k
                /\ \A p \in PayoutsOf(o) :
                      /\ p.type = "advertiser_commission" => p.amount = k
                      /\ p.type = "distributor_revenue" => p.amount = o.total_amount - k

\* C5: every stored order without a campaign reference has exactly one
\* payout, of type distributor_revenue, for the full total_amount, paid to
\* the distributor that owns the order's product.
C5_DirectOrderHasOneRevenuePayout ==
    \A o \in orders :
        o.campaign_id = NullId =>
            /\ Cardinality(PayoutsOf(o)) = 1
            /\ \A p \in PayoutsOf(o) :
                  /\ p.type = "distributor_revenue"
                  /\ p.amount = o.total_amount
                  /\ p.recipient_id = ProductOwner(o.product_id)

\* C6: an order sent with the identifier of a scan whose converted_order_id
\* already holds another order is rejected (it is not answered 201), and no
\* stored scan's converted_order_id names an order that does not exist.
C6_SecondConversionRejected ==
    /\ \A s \in scans :
          (/\ lreq.op = "POST /orders"
           /\ lreq.scan_id = s.id
           /\ s.converted_order_id # NullId
           /\ s.converted_order_id # lreq.order_id)
             => lreq.status # 201
    /\ \A s \in scans :
          s.converted_order_id # NullId => \E o \in orders : o.id = s.converted_order_id

----------------------------------------------------------------------------
(* Scan ingestion: C7 - C10 *)

\* The required fields as the contract lists them: campaign_id, scanned_at,
\* and coords with a numeric lat and a numeric lon
RequiredFieldsPresent(b) ==
    /\ b.campaign_id # NullId
    /\ b.scanned_at # UNDEFINED
    /\ b.coords # <<>>
    /\ b.coords[1].lat \in NumberLiterals
    /\ b.coords[1].lon \in NumberLiterals

\* The stored scan of the current request, if it has one
StoredScans == { s \in scans : s.id = sreq.stored }

\* What the database holds for a text field the client sent: the value, or
\* null for a field the client left out
ClientOrNull(v) == IF v = UNDEFINED THEN NULLV ELSE v

\* C7: a finished ingestion request whose required fields are present was
\* answered 201 and its scan is stored, whatever the lookups did and whatever
\* values the required fields carry.
C7_ValidatedScanAnswered201 ==
    (sreq.pc = "done" /\ RequiredFieldsPresent(sreq.body))
        => /\ sreq.status = 201
           /\ StoredScans # {}

\* C8: an ingestion request with a required field missing, or with a
\* coordinate absent or not a number, is finished at once with status 400; no
\* geocode and no weather lookup has been made for it, it has no stored scan,
\* and every scan stored beyond the seeded ones is owed to another request.
C8_InvalidScanRejected ==
    (sreq.pc # "idle" /\ ~RequiredFieldsPresent(sreq.body))
        => /\ sreq.pc = "done"
           /\ sreq.status = 400
           /\ sreq.geo = NoGeo /\ sreq.wx = NoWx
           /\ sreq.stored = NullId
           /\ SeedScans \subseteq scans
           /\ Cardinality(scans) <= Cardinality(SeedScans) + (sreq.n - 1)

\* A request with a campaign, a timestamp and a numeric lat but no lon has
\* been answered 400.
C8_Witness ==
    /\ sreq.pc = "done" /\ sreq.status = 400
    /\ sreq.body.campaign_id = 1
    /\ sreq.body.scanned_at \in ValidTimestamps
    /\ sreq.body.coords # <<>>
    /\ sreq.body.coords[1].lat = "-41.28"
    /\ sreq.body.coords[1].lon = UNDEFINED
    /\ scans = SeedScans

\* A geocode lookup that failed: it threw, answered with a non-OK status, or
\* its body could not be parsed or held no address
GeoFailed(g) ==
    g.kind = "throw" \/ (g.kind = "response" /\ (~g.ok \/ g.body # "address"))

\* A weather lookup that failed: it threw, answered with a non-OK status, or
\* its body could not be parsed or held none of the weather fields
WxFailed(w) ==
    w.kind = "throw"
        \/ (w.kind = "response" /\ (~w.ok \/ w.body # "object" \/ w.data = NoWeatherData))

\* C9: a finished, validated request for an existing campaign is stored; if
\* its geocode lookup failed, city, suburb and region hold the client's values
\* (null where the client sent none); if its weather lookup failed, weather is
\* null; and when one lookup failed and the other succeeded, the other's
\* result is stored.
C9_FailedLookupLeavesNulls ==
    (/\ sreq.pc = "done"
     /\ RequiredFieldsPresent(sreq.body)
     /\ \E c \in campaigns : c.id = sreq.body.campaign_id)
        => /\ StoredScans # {}
           /\ \A s \in StoredScans :
                /\ GeoFailed(sreq.geo) =>
                      /\ s.city = ClientOrNull(sreq.body.city)
                      /\ s.suburb = ClientOrNull(sreq.body.suburb)
                      /\ s.region = ClientOrNull(sreq.body.region)
                /\ WxFailed(sreq.wx) => s.weather = <<>>
                /\ (GeoFailed(sreq.geo) /\ sreq.wx.kind = "response" /\ ~WxFailed(sreq.wx))
                      => s.weather = <<sreq.wx.data>>
                /\ (WxFailed(sreq.wx) /\ sreq.geo.kind = "response" /\ ~GeoFailed(sreq.geo)
                       /\ sreq.body.suburb = UNDEFINED /\ sreq.geo.address.suburb # UNDEFINED)
                      => s.suburb = sreq.geo.address.suburb

NonEmpty(v) == v # UNDEFINED /\ v # NULLV /\ v # ""

C11_LookupsIffMissing ==
    (sreq.pc = "done" /\ RequiredFieldsPresent(sreq.body))
        => /\ (sreq.geo # NoGeo)
                <=> (\/ sreq.body.city = UNDEFINED
                     \/ sreq.body.suburb = UNDEFINED
                     \/ sreq.body.region = UNDEFINED)
           /\ (sreq.wx # NoWx) <=> (sreq.body.weather = <<>>)

\* C12: every request that has passed validation and waits for a lookup or
\* for the insert is eventually finished (answered, its scan stored), even if
\* the geocoding or weather service never answers.
C12_ValidatedScanEventuallyAnswered ==
    (sreq.pc \in {"geo", "weather", "persist"}) ~> (sreq.pc = "done")

\* C13: the stored scan of a request holds the request's user agent (the
\* body's user_agent, else the User-Agent header) and, for each of
\* device_type, referrer and scan_source that the request supplied, exactly
\* the supplied value.
C13_MetadataStoredVerbatim ==
    \A s \in StoredScans :
        LET m == sreq.body.meta
        IN  /\ m.user_agent # UNDEFINED => s.user_agent = m.user_agent
            /\ (m.user_agent = UNDEFINED /\ m.header_user_agent # UNDEFINED)
                  => s.user_agent = m.header_user_agent
            /\ m.device_type # UNDEFINED => s.device_type = m.device_type
            /\ m.referrer # UNDEFINED => s.referrer = m.referrer
            /\ m.scan_source # UNDEFINED => s.scan_source = m.scan_source

----------------------------------------------------------------------------
(* Short links and assets: C14 - C18 *)

\* The tables are as they were
TablesUnchanged ==
    /\ campaigns' = campaigns /\ orders' = orders /\ payouts' = payouts /\ scans' = scans

\* C14: a step that answers GET /w/{identifier} redirects (302) to
\* FRONTEND_URL/products/{product_id} of the campaign whose identifier is
\* exactly the given one, answers 404 without a location when no campaign has
\* it, and leaves every table as it was.
C14_ShortLinkResolves ==
    [][ (rreq'.op = "GET /w" /\ creq' = creq)
           => /\ TablesUnchanged
              /\ LET x == rreq'.param[1]
                     holders == { c \in campaigns : c.qr_code_identifier = x }
                 IN  IF holders = {}
                     THEN rreq'.status = 404 /\ rreq'.location = <<>>
                     ELSE /\ rreq'.status = 302
                          /\ \E c \in holders :
                               rreq'.location
                                 = << [ base |-> FRONTEND_URL,
                                        path |-> <<"/", "products", "/",
                                                   UuidText(c.product_id)>> ] >> ]_vars

\* GET /w/cap_sale was redirected to the page of product 4, the product of
\* the seeded campaign 'cap_sale'.
C14_Witness ==
    /\ rreq.op = "GET /w" /\ rreq.param = <<"cap_sale">> /\ rreq.url = WRoute \o <<"cap_sale">>
    /\ rreq.status = 302
    /\ rreq.location = <<[base |-> FRONTEND_URL, path |-> <<"/", "products", "/", UuidText(4)>>]>>

\* C15: for every stored campaign, the image served for it encodes the URL
\* BASE_URL/w/{qr_code_identifier}, and a GET of that URL is redirected to the
\* page of that campaign's own product.
C15_AssetUrlResolvesToOwnProduct ==
    \A c \in campaigns :
        LET image == QrcodeResponse(campaigns, QrcodeRoute \o <<UuidText(c.id)>>)
            scanned == image.asset[1].encodes
            answer == ServeGet(campaigns, scanned.path)
        IN  /\ image.status = 200
            /\ scanned = [base |-> BASE_URL, path |-> <<"/", "w", "/">> \o UrlTokens(c.qr_code_identifier)]
            /\ answer.status = 302
            /\ answer.location
                 = << [ base |-> FRONTEND_URL,
                        path |-> <<"/", "products", "/", UuidText(c.product_id)>> ] >>

\* C16: a step that answers GET /qrcode/{campaignId} or POST
\* /campaigns/{id}/generate-assets leaves campaigns, scans, orders and payouts
\* as they were; and a request that is answered with an image (or with the
\* asset URLs) is answered with the same encoded URL (the same asset URLs)
\* when it is sent again, even after a step that added a campaign.
C16_AssetGenerationIsPure ==
    [][ /\ (rreq'.op \in {"GET /qrcode", "POST generate-assets"} /\ creq' = creq)
              => TablesUnchanged
        /\ campaigns' # campaigns =>
              /\ \A tokens \in QrcodeRequests :
                    LET before == QrcodeResponse(campaigns, tokens)
                    IN  before.status = 200
                           => (QrcodeResponse(campaigns, tokens))' = before
              /\ \A id \in CampaignIdParams :
                    LET before == GenerateAssetsResponse(campaigns, id)
                    IN  before.status = 200
                           => (GenerateAssetsResponse(campaigns, id))' = before ]_vars

\* The SVG of campaign 1 has been served after a fifth campaign was created.
C16_Witness ==
    /\ rreq.op = "GET /qrcode" /\ rreq.param = <<UuidText(1)>> /\ rreq.format = "svg"
    /\ rreq.status = 200 /\ rreq.asset # <<>>
    /\ Cardinality(campaigns) = Cardinality(SeedCampaigns) + 1
    /\ orders = SeedOrders /\ payouts = SeedPayouts /\ scans = SeedScans

\* C17: a step that answers GET /qrcode/{campaignId} answers 404 when no
\* stored campaign has that id; otherwise it serves image/svg+xml under the
\* name qr-{campaignId}.svg for format=svg, and image/png under the name
\* qr-{campaignId}.png for format=png and for no format.
C17_QrcodeFormats ==
    [][ (rreq'.op = "GET /qrcode" /\ creq' = creq)
           => LET campaignId == rreq'.param[1]
              IN  IF ~\E c \in campaigns : UuidText(c.id) = campaignId
                  THEN rreq'.status = 404
                  ELSE IF rreq'.format = "svg"
                  THEN /\ rreq'.status = 200
                       /\ rreq'.content_type = "image/svg+xml"
                       /\ rreq'.filename = "qr-" \o campaignId \o ".svg"
                  ELSE /\ rreq'.status = 200
                       /\ rreq'.content_type = "image/png"
                       /\ rreq'.filename = "qr-" \o campaignId \o ".png" ]_vars

\* C18: for every stored campaign, a GET of the src of the snippet that the
\* embed endpoint returns for the campaign's identifier serves the PNG that
\* encodes the campaign's URL, and so does a GET of the src of the embedCode
\* that generate-assets returns for the campaign.
C18_EmbedSrcServesAsset ==
    \A c \in campaigns :
        LET snippet == EmbedResponse(EmbedRoute \o UrlTokens(c.qr_code_identifier)).json[1].embedCode
            assets == GenerateAssetsResponse(campaigns, UuidText(c.id)).json[1]
            served(url) == ServeGet(campaigns, url.path)
            expected == << [ type |-> "png",
                             encodes |-> [ base |-> BASE_URL,
                                           path |-> <<"/", "w", "/">>
                                                      \o UrlTokens(c.qr_code_identifier) ] ] >>
        IN  /\ served(snippet.src).status = 200
            /\ served(snippet.src).asset = expected
            /\ served(assets.embedCode.src).status = 200
            /\ served(assets.embedCode.src).asset = expected

----------------------------------------------------------------------------
(* Summaries: C19, C20 *)

\* C19: a step that answers the per-campaign summary request for a stored
\* campaign answers 200 with one aggregate object, whose scan_count is the
\* number of stored scans of that campaign and whose conversions is the
\* number of those with a conversion pointer.
C19_CampaignSummaryIsAggregate ==
    [][ (/\ rreq'.op = "GET summary/campaign" /\ sreq' = sreq
         /\ \E c \in campaigns : UuidText(c.id) = rreq'.param[1])
           => LET mine == { s \in scans : UuidText(s.campaign_id) = rreq'.param[1] }
                  converted == { s \in mine : s.converted_order_id # NullId }
              IN  /\ rreq'.status = 200
                  /\ rreq'.json[1].kind = "object"
                  /\ rreq'.json[1].fields.scan_count = Cardinality(mine)
                  /\ rreq'.json[1].fields.conversions = Cardinality(converted)
                  /\ Cardinality(converted) <= Cardinality(mine) ]_vars

RECURSIVE SumScanCounts(_)
SumScanCounts(rows) ==
    IF rows = <<>> THEN 0 ELSE Head(rows).scan_count + SumScanCounts(Tail(rows))

\* C20: a step that answers the per-city summary request returns one row per
\* distinct city of the stored scans (null being one city), each with the
\* number of scans of that city; the counts add up to the number of stored
\* scans, and no row has a larger count than the row before it.
C20_CitySummaryGroupsAndOrders ==
    [][ (rreq'.op = "GET summary/city" /\ sreq' = sreq)
           => LET rows == rreq'.json[1].items
                  cities == { s.city : s \in scans }
              IN  /\ rreq'.status = 200
                  /\ Len(rows) = Cardinality(cities)
                  /\ { rows[i].city : i \in 1..Len(rows) } = cities
                  /\ \A i \in 1..Len(rows) :
                        rows[i].scan_count
                          = Cardinality({ s \in scans : s.city = rows[i].city })
                  /\ SumScanCounts(rows) = Cardinality(scans)
                  /\ \A i \in 1..(Len(rows) - 1) :
                        rows[i].scan_count >= rows[i + 1].scan_count ]_vars

\* With a second scan stored for Wellington, the summary has four rows and
\* Wellington, with 2 scans, is the first.
C20_Witness ==
    /\ rreq.op = "GET summary/city" /\ rreq.status = 200
    /\ Len(rreq.json[1].items) = 4
    /\ rreq.json[1].items[1] = [city |-> "Wellington", scan_count |-> 2]
    /\ Cardinality(scans) = 5

----------------------------------------------------------------------------
(* Stored rows: C21 - C24 *)

\* C21: no step changes or deletes a stored scan: every scan stored before
\* the step is stored after it with the same id, campaign, timestamp,
\* coordinates, place names, weather and client metadata; its conversion
\* pointer is the same too, unless it was null and now names a stored order.
C21_StoredScanImmutable ==
    [][ \A s \in scans :
          \E t \in scans' :
             /\ t.id = s.id
             /\ [t EXCEPT !.converted_order_id = NullId]
                  = [s EXCEPT !.converted_order_id = NullId]
             /\ \/ t.converted_order_id = s.converted_order_id
                \/ /\ s.converted_order_id = NullId
                   /\ \E o \in orders' : o.id = t.converted_order_id ]_vars

\* A scan has been ingested (id 5), an order naming the converted scan 1 has
\* then been stored, the campaign's scans have been read, and scans 1 and 5
\* are as they were stored.
C21_Witness ==
    /\ sreq.status = 201 /\ sreq.stored = 5
    /\ lreq.op = "POST /orders" /\ lreq.status = 201 /\ lreq.scan_id = 1
    /\ rreq.op = "GET summary/campaign" /\ rreq.status = 200
    /\ Len(rreq.json[1].items) = 2
    /\ SeedScans \subseteq scans
    /\ \E s \in scans : s.id = 5 /\ s.converted_order_id = NullId

ValidPercent(v) == Len(v) = 1 /\ v[1] \in 0..100

\* C23: the commission_percent of every stored campaign is an integer of
\* 0..100, and a finished create whose commission_percent was missing, not
\* an integer, negative or above 100 has stored no campaign.
C23_CommissionPercentInRange ==
    /\ \A c \in campaigns : c.commission_percent \in 0..100
    /\ \A c \in Clients :
          (creq[c].pc = "done" /\ ~ValidPercent(creq[c].body.commission_percent))
             => /\ creq[c].status # 201
                /\ creq[c].created = NullId

\* Values of the model that are not numbers: an absent value, null, and
\* numbers written as strings
NotNumbers == {UNDEFINED, NULLV, "'-41.28'", "'174.78'"}

\* C24: every stored scan has a campaign reference, a scan timestamp, and a
\* latitude and a longitude that are both numbers.
C24_StoredScanHasRequiredFields ==
    \A s \in scans :
        /\ s.campaign_id # NullId
        /\ s.scanned_at \notin {UNDEFINED, NULLV, ""}
        /\ s.lat \notin NotNumbers
        /\ s.lon \notin NotNumbers

\* A scan at latitude 0 has been ingested and stored with both coordinates.
C24_Witness ==
    /\ sreq.status = 201
    /\ sreq.body.coords[1].lat = "0"
    /\ \E s \in StoredScans :
          /\ s.lat = "0" /\ s.lon = "174.78"
          /\ s.campaign_id = 1 /\ s.scanned_at \in ValidTimestamps

----------------------------------------------------------------------------
(* One ingestion request, and several at a time: C25, C26 *)

OwnRow(q) ==
    [ city |-> ToDb(GeoNames([city |-> q.body.city, suburb |-> q.body.suburb,
                              region |-> q.body.region], q.geo).city),
      suburb |-> ToDb(GeoNames([city |-> q.body.city, suburb |-> q.body.suburb,
                                region |-> q.body.region], q.geo).suburb),
      weather |-> LET w == WeatherAfter(q.body.weather, q.wx)
                  IN  IF w = <<>> THEN <<>> ELSE <<JsonParse(JsonStringify(w[1]))>> ]

\* C26: among requests in flight together, a request whose lookups have
\* settled is in the end answered 201 with its scan stored, even while
\* another request waits for a lookup that never settles; and the scan of
\* every answered request holds the place names and the weather of its own
\* body and its own lookups, and is no other request's scan.
C26_ConcurrentRequestsIndependent ==
    /\ \A c \in Clients :
          (ireq[c].pc = "persist")
             ~> (ireq[c].status = 201 /\ \E s \in scans : s.id = ireq[c].stored)
    /\ [](\A c \in Clients :
            ireq[c].status = 201 =>
               /\ \E s \in scans :
                     /\ s.id = ireq[c].stored
                     /\ s.city = OwnRow(ireq[c]).city
                     /\ s.suburb = OwnRow(ireq[c]).suburb
                     /\ s.weather = OwnRow(ireq[c]).weather
               /\ \A d \in Clients \ {c} : ireq[d].stored # ireq[c].stored)

\* Client 1 still waits for its geocode lookup while client 2, whose lookups
\* settled after client 1's request began, has been answered 201.
C26_Witness ==
    /\ ireq[1].pc = "geo"
    /\ ireq[2].status = 201 /\ ireq[2].calls = [geo |-> 1, weather |-> 1, insert |-> 1]
    /\ ireq[2].geo.kind = "response"
    /\ \E s \in scans : s.id = ireq[2].stored /\ s.city = "Lower Hutt"

----------------------------------------------------------------------------
(* Responses and access: C27 - C30 *)

\* C27: a step that serves GET /qrcode/{campaignId} makes exactly one call
\* that sends a response; and when the format is svg and the SVG encoding
\* failed, that call is the 500 and the handler has not gone on to the PNG
\* encoding.
C27_QrcodeAnswersOnce ==
    [][ (rreq'.op = "GET /qrcode" /\ creq' = creq)
           => /\ Len(rreq'.sent) = 1
              /\ (rreq'.format = "svg" /\ rreq'.encoded # <<>> /\ rreq'.asset = <<>>)
                    => (rreq'.sent = <<500>> /\ rreq'.encoded = <<"svg">>) ]_vars

\* A request that carries a valid Bearer token whose role is retailer
HasRetailerToken(auth) == auth.bearer /\ auth.verifies /\ auth.role = "retailer"

\* C28: a step that serves a request to a path under /retailers without a
\* valid retailer token runs no route handler, sends no query on table
\* users and leaves the table as it was; and whenever a route handler runs,
\* requireRetailerAuth has run before it.
C28_RetailersBehindAuth ==
    [][ (areq' # areq /\ areq'.path # <<>> /\ areq'.path[1] = "retailers")
           => /\ ~HasRetailerToken(areq'.auth)
                    => /\ \A i \in 1..Len(areq'.ran) : areq'.ran[i] \notin Handlers
                       /\ ~areq'.queried
                       /\ users' = users
              /\ \A i \in 1..Len(areq'.ran) :
                    areq'.ran[i] \in Handlers
                       => \E j \in 1..(i - 1) : areq'.ran[j] = "requireRetailerAuth" ]_vars

\* The campaign a per-campaign summary request names
SummaryPath(path) == Len(path) = 5 /\ SubSeq(path, 1, 4) = <<"analytics", "scans", "summary", "campaign">>

\* C29: when the per-campaign scan summary is requested with the valid token
\* of a retailer in table users, and the campaign named is a stored campaign
\* of another retailer, the response carries none of that campaign's scans.
C29_SummaryOnlyForOwner ==
    [][ (areq' # areq /\ SummaryPath(areq'.path) /\ HasRetailerToken(areq'.auth)
           /\ \E u \in users : u.id = areq'.auth.id /\ u.role = "retailer")
           => \A c \in campaigns :
                 (UuidText(c.id) = areq'.path[5] /\ c.retailer_id # areq'.auth.id)
                    => \/ areq'.json = <<>>
                       \/ \A i \in 1..Len(areq'.json[1].items) :
                             areq'.json[1].items[i].campaign_id # c.id ]_vars

\* The required fields a create body lacks
MissingFields(b) ==
    { k \in {"retailer_id", "product_id", "campaign_name", "qr_code_identifier"} :
        \/ k = "retailer_id" /\ b.retailer_id = NullId
        \/ k = "product_id" /\ b.product_id = NullId
        \/ k = "campaign_name" /\ b.campaign_name = ""
        \/ k = "qr_code_identifier" /\ b.qr_code_identifier = "" }

\* C30: a create request whose body lacks a required field is answered 400
\* with a message naming a field it lacks in the step that receives it,
\* without an INSERT being sent and with the stored campaigns unchanged; and
\* every create request that finishes is answered, 201 with its stored row
\* or 400 with an error message and the stored campaigns unchanged.
C30_CreateErrorsAnswered ==
    [][ \A c \in Clients :
          /\ (creq[c].pc = "idle" /\ creq'[c].pc # "idle"
                 /\ MissingFields(creq'[c].body) # {})
                => /\ creq'[c].pc = "done" /\ creq'[c].status = 400
                   /\ \E k \in MissingFields(creq'[c].body) :
                         creq'[c].error = <<"Missing required field: ", k>>
                   /\ creq'[c].created = NullId
                   /\ campaigns' = campaigns
          /\ (creq[c].pc # "done" /\ creq'[c].pc = "done")
                => \/ /\ creq'[c].status = 201
                      /\ \E row \in campaigns' \ campaigns : row.id = creq'[c].created
                   \/ /\ creq'[c].status = 400 /\ creq'[c].error # <<>>
                      /\ campaigns' = campaigns ]_vars

\* One request refused for a missing identifier and another refused by the
\* database, both answered, with nothing stored
C30_Witness ==
    \E c, d \in Clients :
        /\ creq[c].pc = "done" /\ creq[c].status = 400
        /\ creq[c].error = <<"Missing required field: ", "qr_code_identifier">>
        /\ creq[d].pc = "done" /\ creq[d].status = 400
        /\ MissingFields(creq[d].body) = {}
        /\ creq[d].error[1] = "Failed to create campaign: "
        /\ campaigns = SeedCampaigns

====
